---- MODULE Spec2Model ----
(***************************************************************************)
(* A model of the round resolver of the hidden-role game engine            *)
(* (src/engine.py: GameState, ActionResolver) over the map and sabotage    *)
(* catalog of src/engine/config.py.                                        *)
(*                                                                         *)
(* state    the GameState record the resolver mutates                      *)
(* actions  the action map handed to the last resolve_round call, in the   *)
(*          insertion order of the dict (a sequence of entries)            *)
(* op       the operation that produced the current state                  *)
(*                                                                         *)
(* The last sections model GameConfig.validate (src/engine/config.py) and  *)
(* the tournament scheduler and Elo update (src/engine/tournament.py); in  *)
(* their specifications state holds the configuration under validation or  *)
(* the TournamentRunner.                                                   *)
(***************************************************************************)
EXTENDS Integers, Sequences, FiniteSets, TLC

VARIABLES state, actions, op

vars == <<state, actions, op>>

None == "None"

(***************************************************************************)
(* Bounds of the model: the rounds played, the values of the scaled-down    *)
(* GameConfig records the games are played with, and the size of the       *)
(* action maps tried.                                                      *)
(***************************************************************************)
ShortGameRounds == 2
LongGameRounds == 6
KillCooldown == 1
ShortCountdown == 1
LongCountdown == 3
SabotageCooldown == 2
MeetingsPerPlayer == 1
MovementCap == 1
SightingCap == 1
MaxActors == 2
MaxLateCalls == 2

\* rounds of work played after the walk to the task rooms
WorkRounds == 3

\* config.max_total_rounds of the game that is played to its round limit
RoundLimit == 3

\* rounds played once the ghosts are in place
GhostRounds == 2

\* rounds played once the players stand on both sides of a door
RouteRounds == 3

\* games_per_team of the tournaments that are scheduled
MaxGames == 2

\* the largest num_players of the configurations that are validated
MaxPlayers == 8

\* a kill cooldown long enough to leave rounds between two kills
LongKillCooldown == 3

\* rounds played after the sabotage cooldown of a cleared sabotage has run out
FixRounds == 1

\* GameConfig.max_total_rounds
MaxTotalRounds == 60

\* GameConfig: the fields the resolver reads
GameConfig(countdown) ==
    [max_total_rounds |-> MaxTotalRounds,
     kill_cooldown |-> KillCooldown,
     sabotage_countdown |-> countdown,
     sabotage_cooldown |-> SabotageCooldown,
     emergency_meetings_per_player |-> MeetingsPerPlayer,
     ghost_tasks_enabled |-> TRUE,
     memory_movement_cap |-> MovementCap,
     memory_sighting_cap |-> SightingCap]

(***************************************************************************)
(* Map and rules catalog.                                                  *)
(***************************************************************************)
MAP_ADJACENCY ==
    [ Cafeteria      |-> {"Weapons", "MedBay", "Upper Engine", "Admin", "Storage"},
      Weapons        |-> {"Cafeteria", "O2", "Navigation"},
      O2             |-> {"Weapons", "Navigation", "Shields", "Admin"},
      Navigation     |-> {"Weapons", "O2", "Shields"},
      Shields        |-> {"Navigation", "O2", "Communications", "Storage"},
      Communications |-> {"Shields", "Storage"},
      Storage        |-> {"Cafeteria", "Admin", "Communications", "Shields", "Electrical"},
      Admin          |-> {"Cafeteria", "Storage", "O2"},
      Electrical     |-> {"Storage", "Lower Engine", "Security"},
      Security       |-> {"Upper Engine", "Lower Engine", "Reactor", "Electrical"},
      Reactor        |-> {"Upper Engine", "Lower Engine", "Security"},
      MedBay         |-> {"Upper Engine", "Cafeteria"} ]
    @@ ("Lower Engine" :> {"Electrical", "Security", "Reactor"})
    @@ ("Upper Engine" :> {"Cafeteria", "MedBay", "Security", "Reactor"})

ALL_ROOMS == DOMAIN MAP_ADJACENCY

\* MAP_ADJACENCY.get(room, [])
Adjacent(room) ==
    IF room \in DOMAIN MAP_ADJACENCY THEN MAP_ADJACENCY[room] ELSE {}

SABOTAGE_DEFINITIONS ==
    [ reactor |-> [fix_locations |-> ("Reactor" :> 4), critical |-> TRUE],
      o2      |-> [fix_locations |-> ("O2" :> 2) @@ ("Admin" :> 2), critical |-> TRUE],
      lights  |-> [fix_locations |-> ("Electrical" :> 3), critical |-> FALSE],
      comms   |-> [fix_locations |-> ("Communications" :> 3), critical |-> FALSE] ]

NoSabotage ==
    [type |-> None, critical |-> FALSE, countdown |-> <<>>,
     fix_progress |-> <<>>, fix_required |-> <<>>]

NoMeeting ==
    [trigger |-> None, called_by |-> None, body_found |-> None, body_location |-> None]

(***************************************************************************)
(* Players.  LobbyOrder lists every player id a game of the model may     *)
(* hold, in the insertion order of state.players; the ids are chosen so    *)
(* that it is also their lexicographic order.  PlayerOrder is the lobby of *)
(* four of the standard game.                                              *)
(***************************************************************************)
LobbyOrder == <<"p1", "p2", "p3", "p4", "p5", "p6">>

PlayerOrder == SubSeq(LobbyOrder, 1, 4)

PlayerIds == {PlayerOrder[i] : i \in 1..Len(PlayerOrder)}

Rank(pid) == CHOOSE i \in 1..Len(LobbyOrder) : LobbyOrder[i] = pid

\* sorted(ids): the ids of a set in lexicographic order
RECURSIVE Sorted(_)
Sorted(S) ==
    IF S = {} THEN <<>>
    ELSE LET m == CHOOSE x \in S : \A y \in S : Rank(x) <= Rank(y)
         IN <<m>> \o Sorted(S \ {m})

Max(a, b) == IF a >= b THEN a ELSE b
Min(a, b) == IF a <= b THEN a ELSE b

NewPlayer(role, meetings) ==
    [role |-> role, alive |-> TRUE, ejected |-> FALSE, location |-> "Cafeteria",
     emergency_meetings_remaining |-> meetings,
     kill_cooldown |-> 0, last_action |-> "wait"]

NewTask(tid, name, loc, req, vis) ==
    [task_id |-> tid, name |-> name, location |-> loc, required |-> req,
     progress |-> 0, visual |-> vis]

\* Task.completed
completed(t) == t.progress >= t.required


(***************************************************************************)
(* ActionResult and _validate.  An entry of the action map is a record     *)
(* [pid, action, target]; a dict without an "action" key is the entry      *)
(* whose action is Malformed, and a missing target is None.                *)
(***************************************************************************)
Malformed == "<no action key>"

Result(act, ok, reason) == [action |-> act, success |-> ok, reason |-> reason]

WaitAction == [action |-> "wait", target |-> None]

LightsOn(s) == s.sabotage.type = "lights"

\* next((t for t in tasks[pid] if t.task_id == tid), None): its index, or 0
FindTask(s, pid, tid) ==
    LET ts == IF pid \in DOMAIN s.tasks THEN s.tasks[pid] ELSE <<>>
        hits == {i \in 1..Len(ts) : ts[i].task_id = tid}
    IN IF hits = {} THEN 0 ELSE CHOOSE i \in hits : \A j \in hits : i <= j

\* the ghost branch of _validate that accepts whatever a ghost submits
ValidateGhostAnything(s, pid, a) == Result(a.action, TRUE, None)

ValidateGhost(s, pid, a) ==
    LET p == s.players[pid]
        act == a.action
        ti == FindTask(s, pid, a.target)
    IN IF act = "move"
       THEN IF a.target \in Adjacent(p.location)
            THEN Result(act, TRUE, None)
            ELSE Result(act, FALSE, "Invalid move target")
       ELSE IF act = "do_task" /\ p.role = "crewmate" /\ s.config.ghost_tasks_enabled
       THEN IF ti # 0 /\ ~completed(s.tasks[pid][ti])
                      /\ s.tasks[pid][ti].location = p.location
            THEN Result(act, TRUE, None)
            ELSE Result(act, FALSE, "Invalid task or location")
       ELSE Result(act, FALSE, "Ghosts can only move or do tasks")

\* ValidateKill that does not look at the killer's cooldown
ValidateKillAnytime(s, pid, a) ==
    LET p == s.players[pid]
        act == a.action
    IN IF p.role # "impostor" THEN Result(act, FALSE, "Only impostors can kill")
       ELSE IF a.target \notin DOMAIN s.players \/ ~s.players[a.target].alive
       THEN Result(act, FALSE, "Invalid target")
       ELSE IF s.players[a.target].role = "impostor"
       THEN Result(act, FALSE, "Cannot kill teammate")
       ELSE Result(act, TRUE, None)

ValidateKill(s, pid, a) ==
    LET p == s.players[pid]
        act == a.action
    IN IF p.role # "impostor" THEN Result(act, FALSE, "Only impostors can kill")
       ELSE IF p.kill_cooldown > 0 THEN Result(act, FALSE, "Kill cooldown active")
       ELSE IF a.target \notin DOMAIN s.players \/ ~s.players[a.target].alive
       THEN Result(act, FALSE, "Invalid target")
       ELSE IF s.players[a.target].role = "impostor"
       THEN Result(act, FALSE, "Cannot kill teammate")
       ELSE Result(act, TRUE, None)

\* ValidateSabotage without the test of the cooldown
ValidateSabotageAnytime(s, pid, a) ==
    LET p == s.players[pid]
        act == a.action
    IN IF p.role # "impostor" THEN Result(act, FALSE, "Only impostors can sabotage")
       ELSE IF s.sabotage.type # None THEN Result(act, FALSE, "Sabotage already active")
       ELSE IF a.target \notin DOMAIN SABOTAGE_DEFINITIONS
       THEN Result(act, FALSE, "Invalid sabotage")
       ELSE Result(act, TRUE, None)

ValidateSabotage(s, pid, a) ==
    LET p == s.players[pid]
        act == a.action
    IN IF p.role # "impostor" THEN Result(act, FALSE, "Only impostors can sabotage")
       ELSE IF s.sabotage.type # None THEN Result(act, FALSE, "Sabotage already active")
       ELSE IF s.sabotage_cooldown > 0 THEN Result(act, FALSE, "Sabotage cooldown active")
       ELSE IF a.target \notin DOMAIN SABOTAGE_DEFINITIONS
       THEN Result(act, FALSE, "Invalid sabotage")
       ELSE Result(act, TRUE, None)

\* the do_task branch of _validate without the test of task.completed
ValidateDoTaskAgain(s, pid, a) ==
    LET p == s.players[pid]
        act == a.action
        ti == FindTask(s, pid, a.target)
    IN IF p.role # "crewmate" THEN Result(act, FALSE, "Only crewmates do tasks")
       ELSE IF ti = 0 THEN Result(act, FALSE, "Task not found")
       ELSE IF s.tasks[pid][ti].location # p.location
       THEN Result(act, FALSE, "Wrong room for task")
       ELSE Result(act, TRUE, None)

ValidateDoTask(s, pid, a) ==
    LET p == s.players[pid]
        act == a.action
        ti == FindTask(s, pid, a.target)
    IN IF p.role # "crewmate" THEN Result(act, FALSE, "Only crewmates do tasks")
       ELSE IF ti = 0 THEN Result(act, FALSE, "Task not found")
       ELSE IF completed(s.tasks[pid][ti])
       THEN Result(act, FALSE, "Task already complete")
       ELSE IF s.tasks[pid][ti].location # p.location
       THEN Result(act, FALSE, "Wrong room for task")
       ELSE Result(act, TRUE, None)

ValidateLiving(s, pid, a) ==
    LET p == s.players[pid]
        act == a.action
    IN CASE act = "move" ->
              IF a.target \in Adjacent(p.location)
              THEN Result(act, TRUE, None)
              ELSE Result(act, FALSE, "Invalid move target")
         [] act = "do_task" -> ValidateDoTask(s, pid, a)
         [] act = "fake_task" ->
              IF p.role # "impostor"
              THEN Result(act, FALSE, "Only impostors can fake tasks")
              ELSE Result(act, TRUE, None)
         [] act = "kill" -> ValidateKill(s, pid, a)
         [] act = "report" ->
              IF \E i \in 1..Len(s.bodies) : s.bodies[i].location = p.location
              THEN Result(act, TRUE, None)
              ELSE Result(act, FALSE, "No body to report")
         [] act = "call_emergency" ->
              IF p.location # "Cafeteria" THEN Result(act, FALSE, "Must be in Cafeteria")
              ELSE IF p.emergency_meetings_remaining <= 0
              THEN Result(act, FALSE, "No meetings left")
              ELSE IF s.sabotage.type # None /\ s.sabotage.critical
              THEN Result(act, FALSE, "Critical sabotage active")
              ELSE Result(act, TRUE, None)
         [] act = "sabotage" -> ValidateSabotage(s, pid, a)
         [] act = "fix_sabotage" ->
              IF s.sabotage.type = None THEN Result(act, FALSE, "No active sabotage")
              ELSE IF p.location \notin DOMAIN s.sabotage.fix_required
              THEN Result(act, FALSE, "Wrong room to fix")
              ELSE Result(act, TRUE, None)
         [] act = "use_admin" ->
              IF p.location # "Admin" THEN Result(act, FALSE, "Must be in Admin")
              ELSE Result(act, TRUE, None)
         [] OTHER -> Result(act, FALSE, "Unknown action")

\* _validate that accepts every move, whatever its target
ValidateAnyMove(s, pid, a) ==
    IF a.action = Malformed THEN Result("wait", FALSE, "Malformed action")
    ELSE IF pid \notin DOMAIN s.players THEN Result(a.action, FALSE, "Player not found")
    ELSE IF a.action \in {"wait", "move"} THEN Result(a.action, TRUE, None)
    ELSE IF ~s.players[pid].alive THEN ValidateGhost(s, pid, a)
    ELSE ValidateLiving(s, pid, a)

\* ActionResolver._validate
Validate(s, pid, a) ==
    IF a.action = Malformed THEN Result("wait", FALSE, "Malformed action")
    ELSE IF pid \notin DOMAIN s.players THEN Result(a.action, FALSE, "Player not found")
    ELSE IF a.action = "wait" THEN Result("wait", TRUE, None)
    ELSE IF ~s.players[pid].alive THEN ValidateGhost(s, pid, a)
    ELSE ValidateLiving(s, pid, a)


(***************************************************************************)
(* resolve_round, step by step.  Each step maps a GameState record to the  *)
(* GameState record it leaves.                                             *)
(***************************************************************************)
Ids(s) == DOMAIN s.players

\* all_players = list(self.state.players.keys())
AllPlayers(s) == SelectSeq(LobbyOrder, LAMBDA p : p \in Ids(s))

\* a lights sabotage that blinds nobody
BlindedNever(s, w) == LightsOn(s) /\ s.players[w].role = "nobody"

Blinded(s, w) == LightsOn(s) /\ s.players[w].role = "crewmate"

\* Step 0: clear transient state
ClearTransient(s) ==
    [s EXCEPT !.events = [p \in Ids(s) |-> <<>>],
              !.admin_table_snapshot = <<>>,
              !.round_number = @ + 1,
              !.action_results = <<>>]

\* Step 1: decrement cooldowns
DecrementCooldowns(s) ==
    [s EXCEPT !.players = [p \in Ids(s) |->
                    IF s.players[p].role = "impostor"
                    THEN [s.players[p] EXCEPT !.kill_cooldown = Max(0, @ - 1)]
                    ELSE s.players[p]],
              !.sabotage_cooldown = Max(0, @ - 1)]

\* TickCountdown that takes two from the countdown
TickCountdownTwice(s) ==
    IF s.sabotage.type # None /\ s.sabotage.critical /\ s.sabotage.countdown # <<>>
    THEN [s EXCEPT !.sabotage.countdown = <<@[1] - 2>>]
    ELSE s

\* Step 2: tick the countdown of a critical sabotage
TickCountdown(s) ==
    IF s.sabotage.type # None /\ s.sabotage.critical /\ s.sabotage.countdown # <<>>
    THEN [s EXCEPT !.sabotage.countdown = <<@[1] - 1>>]
    ELSE s

\* CountdownExpired that waits one round more
CountdownExpiredLate(s) ==
    /\ s.sabotage.type # None
    /\ s.sabotage.critical
    /\ s.sabotage.countdown # <<>>
    /\ s.sabotage.countdown[1] < 0

CountdownExpired(s) ==
    /\ s.sabotage.type # None
    /\ s.sabotage.critical
    /\ s.sabotage.countdown # <<>>
    /\ s.sabotage.countdown[1] <= 0

\* SetWinner that leaves the phase alone
SetWinnerKeepsPhase(s, who, cause) ==
    [s EXCEPT !.winner = who, !.win_cause = cause]

SetWinner(s, who, cause) ==
    [s EXCEPT !.winner = who, !.win_cause = cause, !.phase = "game_over"]

SabotageCause(s) ==
    CASE s.sabotage.type = "reactor" -> "sabotage_reactor"
      [] s.sabotage.type = "o2" -> "sabotage_o2"
      [] s.sabotage.type = "lights" -> "sabotage_lights"
      [] s.sabotage.type = "comms" -> "sabotage_comms"

\* Step 3: validated_actions, as the order of its keys and the action of
\* each key; the results of validation go to action_results.
SubmittedBy(acts) == {acts[i].pid : i \in 1..Len(acts)}

EntryOf(acts, pid) == acts[CHOOSE i \in 1..Len(acts) : acts[i].pid = pid]

ValidatedOrder(s, acts) ==
    [i \in 1..Len(acts) |-> acts[i].pid]
      \o SelectSeq(AllPlayers(s), LAMBDA p : p \notin SubmittedBy(acts))

\* validated_actions that keeps an action whether or not it passed validation
ValidatedActionsUnfiltered(s, acts) ==
    [p \in SubmittedBy(acts) \cup Ids(s) |->
        IF p \in SubmittedBy(acts)
        THEN [action |-> EntryOf(acts, p).action, target |-> EntryOf(acts, p).target]
        ELSE WaitAction]

ValidatedActions(s, acts) ==
    [p \in SubmittedBy(acts) \cup Ids(s) |->
        IF p \in SubmittedBy(acts)
        THEN IF Validate(s, p, EntryOf(acts, p)).success
             THEN [action |-> EntryOf(acts, p).action, target |-> EntryOf(acts, p).target]
             ELSE WaitAction
        ELSE WaitAction]

ValidationResults(s, acts) ==
    [p \in SubmittedBy(acts) \cup Ids(s) |->
        IF p \in SubmittedBy(acts)
        THEN Validate(s, p, EntryOf(acts, p))
        ELSE Result("wait", TRUE, None)]

\* the keys of validated_actions with a given action, in dict order
Doing(ord, va, label) == SelectSeq(ord, LAMBDA p : va[p].action = label)

SeqToSet(q) == {q[i] : i \in 1..Len(q)}

\* hist[-cap:]
LastN(q, cap) ==
    IF Len(q) > cap THEN SubSeq(q, Len(q) - cap + 1, Len(q)) ELSE q

\* Step 4: movement.  moves holds (pid, origin, target) in dict order.
MovesOf(s, ord, va) ==
    LET movers == Doing(ord, va, "move")
    IN [i \in 1..Len(movers) |->
           [pid |-> movers[i], origin |-> s.players[movers[i]].location,
            target |-> va[movers[i]].target]]

\* SeenMoves that records the arrivals only
RECURSIVE SeenArrivals(_, _, _)
SeenArrivals(s, o, moves) ==
    IF moves = <<>> THEN <<>>
    ELSE LET m == Head(moves)
             ev == IF s.players[o].location = m.target
                   THEN << <<"arrived", m.pid, m.origin>> >>
                   ELSE <<>>
         IN ev \o SeenArrivals(s, o, Tail(moves))

\* the "left toward" / "arrived from" events a player who stayed gets,
\* one per move, in the order of moves
RECURSIVE SeenMoves(_, _, _)
SeenMoves(s, o, moves) ==
    IF moves = <<>> THEN <<>>
    ELSE LET m == Head(moves)
             ev == IF s.players[o].location = m.origin
                   THEN << <<"left", m.pid, m.target>> >>
                   ELSE IF s.players[o].location = m.target
                   THEN << <<"arrived", m.pid, m.origin>> >>
                   ELSE <<>>
         IN ev \o SeenMoves(s, o, Tail(moves))

\* the "You passed" events of the mover at index k, in the order the
\* nested loop over pairs appends them
PassedEvents(moves, k) ==
    LET mirrored == SelectSeq([j \in 1..Len(moves) |-> j],
                        LAMBDA j : j # k /\ moves[j].origin = moves[k].target
                                         /\ moves[j].target = moves[k].origin)
    IN [i \in 1..Len(mirrored) |->
           <<"passed", moves[mirrored[i]].pid, moves[k].origin, moves[k].target>>]

MoveIndex(moves, pid) == CHOOSE k \in 1..Len(moves) : moves[k].pid = pid

ResolveMovement(s, ord, va) ==
    LET moves == MovesOf(s, ord, va)
        movers == {moves[i].pid : i \in 1..Len(moves)}
    IN [s EXCEPT
          !.players = [p \in Ids(s) |->
              IF p \in movers
              THEN [s.players[p] EXCEPT !.last_action = "moving",
                                        !.location = moves[MoveIndex(moves, p)].target]
              ELSE s.players[p]],
          !.events = [p \in Ids(s) |->
              IF p \in movers
              THEN s.events[p] \o PassedEvents(moves, MoveIndex(moves, p))
              ELSE IF s.players[p].alive
              THEN s.events[p] \o SeenMoves(s, p, moves)
              ELSE s.events[p]],
          !.movement_history = [p \in Ids(s) |->
              IF p \in movers
              THEN LastN(Append(s.movement_history[p],
                                [round |-> s.round_number,
                                 location |-> moves[MoveIndex(moves, p)].target]),
                         s.config.memory_movement_cap)
              ELSE s.movement_history[p]]]

\* A kill that reaches its target in any room: KillHits without the test of
\* the room
KillHitsAnywhere(s, pid, target_id) ==
    /\ target_id \in Ids(s)
    /\ s.players[target_id].alive

\* Step 5: kills, in sorted order of the killers' ids
KillHits(s, pid, target_id) ==
    /\ target_id \in Ids(s)
    /\ s.players[target_id].alive
    /\ s.players[target_id].location = s.players[pid].location

\* KillOne that leaves the killer's cooldown alone
KillOneKeepsCooldown(s, pid, target_id) ==
    IF KillHits(s, pid, target_id)
    THEN [s EXCEPT
            !.players[target_id].alive = FALSE,
            !.bodies = Append(@, [player_id |-> target_id,
                                  location |-> s.players[target_id].location]),
            !.action_results[pid].success = TRUE]
    ELSE [s EXCEPT
            !.action_results[pid].success = FALSE,
            !.action_results[pid].reason =
                "Target is not in your room after movement resolved or is dead."]

\* KillOne that drops the body but leaves the target alive
KillOneLeavesAlive(s, pid, target_id) ==
    IF KillHits(s, pid, target_id)
    THEN [s EXCEPT
            !.bodies = Append(@, [player_id |-> target_id,
                                  location |-> s.players[target_id].location]),
            !.players[pid].kill_cooldown = s.config.kill_cooldown,
            !.action_results[pid].success = TRUE]
    ELSE [s EXCEPT
            !.action_results[pid].success = FALSE,
            !.action_results[pid].reason =
                "Target is not in your room after movement resolved or is dead."]

\* KillOne that fails a missed kill without saying why
KillOneFailsSilently(s, pid, target_id) ==
    IF KillHits(s, pid, target_id)
    THEN [s EXCEPT
            !.players[target_id].alive = FALSE,
            !.bodies = Append(@, [player_id |-> target_id,
                                  location |-> s.players[target_id].location]),
            !.players[pid].kill_cooldown = s.config.kill_cooldown,
            !.action_results[pid].success = TRUE]
    ELSE [s EXCEPT !.action_results[pid].success = FALSE]

KillOne(s, pid, target_id) ==
    IF KillHits(s, pid, target_id)
    THEN [s EXCEPT
            !.players[target_id].alive = FALSE,
            !.bodies = Append(@, [player_id |-> target_id,
                                  location |-> s.players[target_id].location]),
            !.players[pid].kill_cooldown = s.config.kill_cooldown,
            !.action_results[pid].success = TRUE,
            !.events = [w \in Ids(s) |->
                IF /\ s.players[w].alive
                   /\ s.players[w].location = s.players[pid].location
                   /\ ~Blinded(s, w)
                   /\ w # pid
                   /\ w # target_id
                THEN Append(s.events[w], <<"killed", target_id>>)
                ELSE s.events[w]]]
    ELSE [s EXCEPT
            !.action_results[pid].success = FALSE,
            !.action_results[pid].reason =
                "Target is not in your room after movement resolved or is dead."]

RECURSIVE KillLoop(_, _, _)
KillLoop(s, va, killers) ==
    IF killers = <<>> THEN s
    ELSE KillLoop(KillOne(s, Head(killers), va[Head(killers)].target), va, Tail(killers))

\* ResolveKills that walks the killers in the order of the action map
ResolveKillsInMapOrder(s, ord, va) ==
    KillLoop(s, va, Doing(ord, va, "kill"))

ResolveKills(s, ord, va) ==
    KillLoop(s, va, Sorted(SeqToSet(Doing(ord, va, "kill"))))


(***************************************************************************)
(* _check_win_condition and the global task progress it computes.          *)
(***************************************************************************)
Living(s, role) ==
    Cardinality({p \in Ids(s) : s.players[p].role = role /\ s.players[p].alive})

RECURSIVE SumRequired(_)
SumRequired(ts) ==
    IF ts = <<>> THEN 0 ELSE Head(ts).required + SumRequired(Tail(ts))

RECURSIVE SumDone(_)
SumDone(ts) ==
    IF ts = <<>> THEN 0
    ELSE Min(Head(ts).progress, Head(ts).required) + SumDone(Tail(ts))

TasksOf(s, pid) == IF pid \in DOMAIN s.tasks THEN s.tasks[pid] ELSE <<>>

RECURSIVE TotalRequiredOf(_, _)
TotalRequiredOf(s, pids) ==
    IF pids = <<>> THEN 0
    ELSE (IF s.players[Head(pids)].role = "crewmate"
          THEN SumRequired(TasksOf(s, Head(pids))) ELSE 0)
         + TotalRequiredOf(s, Tail(pids))

RECURSIVE TotalDoneOf(_, _)
TotalDoneOf(s, pids) ==
    IF pids = <<>> THEN 0
    ELSE (IF s.players[Head(pids)].role = "crewmate"
          THEN SumDone(TasksOf(s, Head(pids))) ELSE 0)
         + TotalDoneOf(s, Tail(pids))

TotalRequired(s) == TotalRequiredOf(s, AllPlayers(s))
TotalDone(s) == TotalDoneOf(s, AllPlayers(s))

\* ObservationGenerator._global_task_progress: its loops over the players
\* and over the tasks of each crewmate, returning <<done, total>>
RECURSIVE ProgressOfTasks(_, _)
ProgressOfTasks(ts, sums) ==
    IF ts = <<>> THEN sums
    ELSE ProgressOfTasks(Tail(ts),
                         <<sums[1] + Min(Head(ts).progress, Head(ts).required),
                           sums[2] + Head(ts).required>>)

RECURSIVE ProgressOfPlayers(_, _, _)
\* the players' loop without the test of the role
ProgressOfEveryone(s, pids, sums) ==
    IF pids = <<>> THEN sums
    ELSE ProgressOfPlayers(s, Tail(pids),
             ProgressOfTasks(TasksOf(s, Head(pids)), sums))

ProgressOfPlayers(s, pids, sums) ==
    IF pids = <<>> THEN sums
    ELSE ProgressOfPlayers(s, Tail(pids),
             IF s.players[Head(pids)].role = "crewmate"
             THEN ProgressOfTasks(TasksOf(s, Head(pids)), sums)
             ELSE sums)

\* ObservationGenerator._global_task_progress, as the pair <<done, total>>
\* of the fraction done / total; 0.0 is <<0, 1>>
global_task_progress(s) ==
    LET sums == ProgressOfPlayers(s, AllPlayers(s), <<0, 0>>)
    IN IF sums[2] > 0 THEN sums ELSE <<0, 1>>

\* global_prog >= 1.0, where global_prog = done / total if total > 0 else 0.0
TasksAllDone(s) == TotalRequired(s) > 0 /\ TotalDone(s) >= TotalRequired(s)

\* CheckWinCondition that tests the round limit first
CheckWinConditionTimeoutFirst(s) ==
    IF s.winner # None THEN s
    ELSE IF s.round_number >= s.config.max_total_rounds
    THEN SetWinner(s, "crewmates", "timeout")
    ELSE IF Living(s, "impostor") = 0
    THEN SetWinner(s, "crewmates", "all_impostors_eliminated")
    ELSE IF Living(s, "impostor") >= Living(s, "crewmate")
    THEN SetWinner(s, "impostors", "impostors_majority")
    ELSE IF CountdownExpired(s)
    THEN SetWinner(s, "impostors", SabotageCause(s))
    ELSE IF TasksAllDone(s)
    THEN SetWinner(s, "crewmates", "all_tasks_completed")
    ELSE s

\* CheckWinCondition without the test of the round limit
CheckWinConditionNoTimeout(s) ==
    IF s.winner # None THEN s
    ELSE IF Living(s, "impostor") = 0
    THEN SetWinner(s, "crewmates", "all_impostors_eliminated")
    ELSE IF Living(s, "impostor") >= Living(s, "crewmate")
    THEN SetWinner(s, "impostors", "impostors_majority")
    ELSE IF CountdownExpired(s)
    THEN SetWinner(s, "impostors", SabotageCause(s))
    ELSE IF TasksAllDone(s)
    THEN SetWinner(s, "crewmates", "all_tasks_completed")
    ELSE s

\* the state _check_win_condition leaves; it returns True iff that state
\* has a winner
CheckWinCondition(s) ==
    IF s.winner # None THEN s
    ELSE IF Living(s, "impostor") = 0
    THEN SetWinner(s, "crewmates", "all_impostors_eliminated")
    ELSE IF Living(s, "impostor") >= Living(s, "crewmate")
    THEN SetWinner(s, "impostors", "impostors_majority")
    ELSE IF CountdownExpired(s)
    THEN SetWinner(s, "impostors", SabotageCause(s))
    ELSE IF TasksAllDone(s)
    THEN SetWinner(s, "crewmates", "all_tasks_completed")
    ELSE IF s.round_number >= s.config.max_total_rounds
    THEN SetWinner(s, "crewmates", "timeout")
    ELSE s

(***************************************************************************)
(* Steps 6 to 13.                                                          *)
(***************************************************************************)
\* DoTask that takes a unit of progress away
DoTaskUndoes(s, pid, tid) ==
    LET ti == FindTask(s, pid, tid)
        task == [s.tasks[pid][ti] EXCEPT !.progress = @ - 1]
    IN IF ti = 0 THEN s
       ELSE [s EXCEPT
               !.tasks[pid][ti] = task,
               !.players[pid].last_action = "doing_task"]

\* DoTask that tells nobody about a completed visual task
DoTaskUnseen(s, pid, tid) ==
    LET ti == FindTask(s, pid, tid)
        task == [s.tasks[pid][ti] EXCEPT !.progress = @ + 1]
    IN IF ti = 0 THEN s
       ELSE [s EXCEPT
               !.tasks[pid][ti] = task,
               !.players[pid].last_action = "doing_task"]

\* Step 6: tasks, in dict order
DoTask(s, pid, tid) ==
    LET ti == FindTask(s, pid, tid)
        task == [s.tasks[pid][ti] EXCEPT !.progress = @ + 1]
    IN IF ti = 0 THEN s
       ELSE [s EXCEPT
               !.tasks[pid][ti] = task,
               !.players[pid].last_action = "doing_task",
               !.events = [w \in Ids(s) |->
                   IF /\ completed(task) /\ task.visual
                      /\ s.players[w].alive
                      /\ s.players[w].location = s.players[pid].location
                      /\ ~Blinded(s, w)
                      /\ w # pid
                   THEN Append(s.events[w],
                               <<"visual", pid, task.name, s.players[pid].location>>)
                   ELSE s.events[w]]]

RECURSIVE TaskLoop(_, _, _)
TaskLoop(s, va, ord) ==
    IF ord = <<>> THEN s
    ELSE LET pid == Head(ord)
             s1 == CASE va[pid].action = "do_task" -> DoTask(s, pid, va[pid].target)
                     [] va[pid].action = "fake_task" ->
                          [s EXCEPT !.players[pid].last_action = "doing_task"]
                     [] OTHER -> s
         IN TaskLoop(s1, va, Tail(ord))

ResolveTasks(s, ord, va) == TaskLoop(s, va, ord)

\* Step 7: reports and emergency meetings
FirstBodyIn(s, room) ==
    LET hits == {i \in 1..Len(s.bodies) : s.bodies[i].location = room}
    IN IF hits = {} THEN 0 ELSE CHOOSE i \in hits : \A j \in hits : i <= j

Reporters(ord, va) == Sorted(SeqToSet(Doing(ord, va, "report")))
\* Emergencies in the order of the action map
EmergenciesInMapOrder(ord, va) == Doing(ord, va, "call_emergency")

Emergencies(ord, va) == Sorted(SeqToSet(Doing(ord, va, "call_emergency")))

MeetingTriggered(ord, va) == Reporters(ord, va) # <<>> \/ Emergencies(ord, va) # <<>>

\* MeetingCaller that prefers the emergency callers
MeetingCallerEmergencyFirst(ord, va) ==
    IF Emergencies(ord, va) # <<>> THEN Emergencies(ord, va)[1] ELSE Reporters(ord, va)[1]

MeetingCaller(ord, va) ==
    IF Reporters(ord, va) # <<>> THEN Reporters(ord, va)[1] ELSE Emergencies(ord, va)[1]

Supersede(s, ord, va, caller) ==
    [p \in DOMAIN s.action_results |->
        IF p # caller /\ va[p].action \in {"report", "call_emergency"}
        THEN [s.action_results[p] EXCEPT
                !.success = FALSE,
                !.reason = "Meeting was triggered by another player this round."]
        ELSE s.action_results[p]]

\* ResolveMeeting that charges every emergency caller of the round
ResolveMeetingChargesAll(s, ord, va) ==
    LET caller == MeetingCaller(ord, va)
        bi == FirstBodyIn(s, s.players[caller].location)
    IN IF Reporters(ord, va) # <<>>
       THEN [s EXCEPT
               !.meeting_context =
                   [trigger |-> "body_report", called_by |-> caller,
                    body_found |-> IF bi # 0 THEN s.bodies[bi].player_id ELSE None,
                    body_location |-> IF bi # 0 THEN s.bodies[bi].location ELSE None],
               !.phase = "discussion",
               !.action_results = Supersede(s, ord, va, caller)]
       ELSE [s EXCEPT
               !.players = [p \in Ids(s) |->
                   IF p \in SeqToSet(Emergencies(ord, va))
                   THEN [s.players[p] EXCEPT !.emergency_meetings_remaining = @ - 1]
                   ELSE s.players[p]],
               !.meeting_context =
                   [trigger |-> "emergency_meeting", called_by |-> caller,
                    body_found |-> None, body_location |-> None],
               !.phase = "discussion",
               !.action_results = Supersede(s, ord, va, caller)]

ResolveMeeting(s, ord, va) ==
    LET caller == MeetingCaller(ord, va)
        bi == FirstBodyIn(s, s.players[caller].location)
    IN IF Reporters(ord, va) # <<>>
       THEN [s EXCEPT
               !.meeting_context =
                   [trigger |-> "body_report", called_by |-> caller,
                    body_found |-> IF bi # 0 THEN s.bodies[bi].player_id ELSE None,
                    body_location |-> IF bi # 0 THEN s.bodies[bi].location ELSE None],
               !.phase = "discussion",
               !.action_results = Supersede(s, ord, va, caller)]
       ELSE [s EXCEPT
               !.players[caller].emergency_meetings_remaining = @ - 1,
               !.meeting_context =
                   [trigger |-> "emergency_meeting", called_by |-> caller,
                    body_found |-> None, body_location |-> None],
               !.phase = "discussion",
               !.action_results = Supersede(s, ord, va, caller)]

\* Step 8: sabotage triggers
NewSabotage(s, name) ==
    [type |-> name,
     critical |-> SABOTAGE_DEFINITIONS[name].critical,
     countdown |-> IF SABOTAGE_DEFINITIONS[name].critical
                   THEN <<s.config.sabotage_countdown>> ELSE <<>>,
     fix_progress |-> [r \in DOMAIN SABOTAGE_DEFINITIONS[name].fix_locations |-> 0],
     fix_required |-> SABOTAGE_DEFINITIONS[name].fix_locations]

\* ResolveSabotage that installs the target of the largest saboteur id
ResolveSabotageLargestId(s, ord, va) ==
    LET sabotages == Sorted(SeqToSet(Doing(ord, va, "sabotage")))
    IN IF /\ sabotages # <<>>
          /\ s.sabotage.type = None
          /\ va[sabotages[Len(sabotages)]].target \in DOMAIN SABOTAGE_DEFINITIONS
       THEN [s EXCEPT !.sabotage = NewSabotage(s, va[sabotages[Len(sabotages)]].target)]
       ELSE s

ResolveSabotage(s, ord, va) ==
    LET sabotages == Sorted(SeqToSet(Doing(ord, va, "sabotage")))
    IN IF /\ sabotages # <<>>
          /\ s.sabotage.type = None
          /\ va[sabotages[1]].target \in DOMAIN SABOTAGE_DEFINITIONS
       THEN [s EXCEPT !.sabotage = NewSabotage(s, va[sabotages[1]].target)]
       ELSE s

\* Step 9: fix actions, in dict order, then the check whether all is fixed
RECURSIVE FixLoop(_, _)
FixLoop(s, fixers) ==
    IF fixers = <<>> THEN s
    ELSE LET pid == Head(fixers)
             loc == s.players[pid].location
             s1 == [s EXCEPT !.players[pid].last_action = "fixing"]
             s2 == IF s.sabotage.type # None /\ loc \in DOMAIN s.sabotage.fix_progress
                   THEN [s1 EXCEPT !.sabotage.fix_progress[loc] = @ + 1]
                   ELSE s1
         IN FixLoop(s2, Tail(fixers))

SabotageResolved(s) ==
    \A loc \in DOMAIN s.sabotage.fix_required :
        (IF loc \in DOMAIN s.sabotage.fix_progress
         THEN s.sabotage.fix_progress[loc] ELSE 0) >= s.sabotage.fix_required[loc]

\* ResolveFixes that clears a fixed sabotage without starting the cooldown
ResolveFixesNoCooldown(s, ord, va) ==
    LET s1 == FixLoop(s, Doing(ord, va, "fix_sabotage"))
    IN IF s1.sabotage.type # None /\ SabotageResolved(s1)
       THEN [s1 EXCEPT !.sabotage = NoSabotage]
       ELSE s1

ResolveFixes(s, ord, va) ==
    LET s1 == FixLoop(s, Doing(ord, va, "fix_sabotage"))
    IN IF s1.sabotage.type # None /\ SabotageResolved(s1)
       THEN [s1 EXCEPT !.sabotage = NoSabotage,
                       !.sabotage_cooldown = s.config.sabotage_cooldown]
       ELSE s1

\* Step 10: admin table
RoomCounts(s) ==
    [r \in ALL_ROOMS |->
        Cardinality({p \in Ids(s) : s.players[p].alive /\ s.players[p].location = r})]

ResolveAdmin(s, ord, va) ==
    LET admin_users == SeqToSet(Doing(ord, va, "use_admin"))
    IN IF admin_users = {} THEN s
       ELSE [s EXCEPT
               !.admin_table_snapshot = [p \in admin_users |-> RoomCounts(s)],
               !.players = [p \in Ids(s) |->
                   IF p \in admin_users
                   THEN [s.players[p] EXCEPT !.last_action = "admin"]
                   ELSE s.players[p]]]

\* Step 11: remaining last_action
UpdateLastAction(s, ord, va) ==
    [s EXCEPT !.players = [p \in Ids(s) |->
        IF va[p].action \in {"wait", "report", "call_emergency", "sabotage"}
        THEN [s.players[p] EXCEPT !.last_action = "idle"]
        ELSE s.players[p]]]

\* Step 12: sighting history
Sightings(s, p) ==
    LET seen == SelectSeq(AllPlayers(s),
                    LAMBDA o : o # p /\ s.players[o].alive
                                     /\ s.players[o].location = s.players[p].location)
    IN [i \in 1..Len(seen) |->
           [round |-> s.round_number, player |-> seen[i],
            location |-> s.players[p].location,
            action |-> s.players[seen[i]].last_action]]

UpdateSightings(s) ==
    [s EXCEPT !.sighting_history = [p \in Ids(s) |->
        IF s.players[p].alive /\ ~Blinded(s, p)
        THEN LastN(s.sighting_history[p] \o Sightings(s, p),
                   s.config.memory_sighting_cap)
        ELSE s.sighting_history[p]]]

\* LogRound that appends nothing
LogRoundSkipped(s) == s

\* Step 13: the round's log entry (its round; its actions and results are
\* copies of validated_actions and action_results, which nothing reads)
LogRound(s) ==
    [s EXCEPT !.game_log = Append(@, [round |-> s.round_number])]


(***************************************************************************)
(* resolve_round as a whole: the GameState it leaves for an action map.    *)
(***************************************************************************)
\* resolve_round that runs steps 8 to 13 in a round that installs a meeting
ResolveRoundPastMeeting(s, acts) ==
    LET s2 == TickCountdown(DecrementCooldowns(ClearTransient(s)))
        ord == ValidatedOrder(s2, acts)
        va == ValidatedActions(s2, acts)
        s3 == [s2 EXCEPT !.action_results = ValidationResults(s2, acts)]
        s5 == CheckWinCondition(ResolveKills(ResolveMovement(s3, ord, va), ord, va))
        s6 == CheckWinCondition(ResolveTasks(s5, ord, va))
        s7 == IF MeetingTriggered(ord, va) THEN ResolveMeeting(s6, ord, va) ELSE s6
        s9 == ResolveFixes(ResolveSabotage(s7, ord, va), ord, va)
        s11 == UpdateLastAction(ResolveAdmin(s9, ord, va), ord, va)
    IN IF CountdownExpired(s2) THEN SetWinner(s2, "impostors", SabotageCause(s2))
       ELSE IF s5.winner # None THEN s5
       ELSE IF s6.winner # None THEN s6
       ELSE CheckWinCondition(LogRound(UpdateSightings(s11)))

ResolveRound(s, acts) ==
    LET s2 == TickCountdown(DecrementCooldowns(ClearTransient(s)))
        ord == ValidatedOrder(s2, acts)
        va == ValidatedActions(s2, acts)
        s3 == [s2 EXCEPT !.action_results = ValidationResults(s2, acts)]
        s5 == CheckWinCondition(ResolveKills(ResolveMovement(s3, ord, va), ord, va))
        s6 == CheckWinCondition(ResolveTasks(s5, ord, va))
        s9 == ResolveFixes(ResolveSabotage(s6, ord, va), ord, va)
        s11 == UpdateLastAction(ResolveAdmin(s9, ord, va), ord, va)
    IN IF CountdownExpired(s2) THEN SetWinner(s2, "impostors", SabotageCause(s2))
       ELSE IF s5.winner # None THEN s5
       ELSE IF s6.winner # None THEN s6
       ELSE IF MeetingTriggered(ord, va) THEN ResolveMeeting(s6, ord, va)
       ELSE CheckWinCondition(LogRound(UpdateSightings(s11)))

(***************************************************************************)
(* The meeting that follows a round ending in DISCUSSION: the engine's     *)
(* driver runs discussion and voting; the tally ejects one living player   *)
(* or nobody, the phase returns to TASK and a win-check runs.              *)
(***************************************************************************)
RunMeeting(s, ejected) ==
    LET s1 == IF ejected = None THEN s
              ELSE [s EXCEPT !.players[ejected].ejected = TRUE,
                             !.players[ejected].alive = FALSE]
    IN CheckWinCondition([s1 EXCEPT !.meeting_context = NoMeeting, !.phase = "task"])

(***************************************************************************)
(* The game at its start: GameState's defaults, every player a default     *)
(* Player in the spawn room, p2 the impostor, p1 and p2 holding one task.  *)
(***************************************************************************)
Roles == [p1 |-> "crewmate", p2 |-> "impostor", p3 |-> "crewmate", p4 |-> "crewmate"]

InitialTasks ==
    [p1 |-> <<NewTask("t1", "Upload Data", "Admin", 2, FALSE)>>,
     p2 |-> <<NewTask("t2", "Swipe Card", "Admin", 2, FALSE)>>,
     p3 |-> <<>>,
     p4 |-> <<>>]

InitialState(config) ==
    [config |-> config,
     phase |-> "task", round_number |-> 0, winner |-> None, win_cause |-> None,
     players |-> [p \in PlayerIds |->
                     NewPlayer(Roles[p], config.emergency_meetings_per_player)],
     tasks |-> InitialTasks,
     bodies |-> <<>>,
     sabotage |-> NoSabotage,
     sabotage_cooldown |-> 0,
     meeting_context |-> NoMeeting,
     events |-> [p \in PlayerIds |-> <<>>],
     admin_table_snapshot |-> <<>>,
     action_results |-> <<>>,
     movement_history |-> [p \in PlayerIds |-> <<>>],
     sighting_history |-> [p \in PlayerIds |-> <<>>],
     game_log |-> <<>>]

(***************************************************************************)
(* Action maps.  A menu gives each player the actions tried for it; a map  *)
(* holds an entry of its menu for at most MaxActors players, in the order  *)
(* of their ids, and the other players are absent from it.                 *)
(***************************************************************************)
Act(a, t) == [action |-> a, target |-> t]

Entry(pid, a) == [pid |-> pid, action |-> a.action, target |-> a.target]

RECURSIVE MapsOver(_, _)
MapsOver(pids, menu) ==
    IF pids = <<>> THEN {<<>>}
    ELSE {<<Entry(Head(pids), a)>> \o rest :
             a \in menu[Head(pids)], rest \in MapsOver(Tail(pids), menu)}

MapsFor(menu) ==
    UNION {MapsOver(Sorted(S), menu) :
              S \in {T \in SUBSET DOMAIN menu : Cardinality(T) <= MaxActors}}

\* every player submits an explicit wait
AllWait == [i \in 1..Len(PlayerOrder) |-> Entry(PlayerOrder[i], WaitAction)]

GameMenu ==
    [p1 |-> {Act("move", "Admin"), Act("do_task", "t1"), Act("call_emergency", None)},
     p2 |-> {Act("move", "Admin"), Act("kill", "p1"), Act("kill", "p3"),
             Act("sabotage", "o2"), Act("report", None)},
     p3 |-> {Act("move", "Admin"), Act("report", None)}]

GameMaps == MapsFor(GameMenu) \cup {AllWait}

\* the action map with its entries in any order
Reordered(acts) ==
    {[i \in 1..Len(acts) |-> acts[f[i]]] :
        f \in {g \in [1..Len(acts) -> 1..Len(acts)] :
                  \A i, j \in 1..Len(acts) : g[i] = g[j] => i = j}}

\* resolve_round that walks the action map in an order of its own choosing
resolve_round_unordered(acts) ==
    /\ \E walked \in Reordered(acts) : state' = ResolveRound(state, walked)
    /\ actions' = acts
    /\ op' = "resolve_round"

resolve_round(acts) ==
    /\ state' = ResolveRound(state, acts)
    /\ actions' = acts
    /\ op' = "resolve_round"

(***************************************************************************)
(* Spec: the first ShortGameRounds rounds of a game as the driver plays it: *)
(* a round while the phase is TASK, a meeting while it is DISCUSSION,      *)
(* nothing after GAME_OVER.                                                *)
(***************************************************************************)
Init ==
    /\ state = InitialState(GameConfig(ShortCountdown))
    /\ actions = <<>>
    /\ op = "init"

PlayRound ==
    /\ state.phase = "task"
    /\ state.round_number < ShortGameRounds
    /\ \E acts \in GameMaps : resolve_round(acts)

HoldMeeting ==
    /\ state.phase = "discussion"
    /\ \E e \in {p \in Ids(state) : state.players[p].alive} \cup {None} :
          state' = RunMeeting(state, e)
    /\ actions' = <<>>
    /\ op' = "run_meeting"

Next == PlayRound \/ HoldMeeting

Spec == Init /\ [][Next]_vars

(***************************************************************************)
(* SpecSabotage: the first LongGameRounds rounds of a game in which two    *)
(* crewmates first walk to the two fix rooms of the o2 sabotage (p1 to     *)
(* Admin, p3 through Admin to O2) and the impostor then sabotages while    *)
(* they fix.                                                               *)
(***************************************************************************)
WalkToFixRooms ==
    << <<Entry("p1", Act("move", "Admin")), Entry("p3", Act("move", "Admin"))>>,
       <<Entry("p3", Act("move", "O2"))>> >>

SabotageMenu ==
    [p1 |-> {Act("fix_sabotage", None), Act("move", "O2")},
     p2 |-> {Act("sabotage", "o2"), Act("sabotage", "lights")},
     p3 |-> {Act("fix_sabotage", None)}]

SabotageMaps == MapsFor(SabotageMenu)

InitSabotage ==
    /\ state = InitialState(GameConfig(LongCountdown))
    /\ actions = <<>>
    /\ op = "init"

WalkRound ==
    /\ state.phase = "task"
    /\ state.round_number < Len(WalkToFixRooms)
    /\ resolve_round(WalkToFixRooms[state.round_number + 1])

SabotageRound ==
    /\ state.phase = "task"
    /\ state.round_number >= Len(WalkToFixRooms)
    /\ state.round_number < LongGameRounds
    /\ \E acts \in SabotageMaps : resolve_round(acts)

NextSabotage == WalkRound \/ SabotageRound

SpecSabotage == InitSabotage /\ [][NextSabotage]_vars

(***************************************************************************)
(* SpecLate: resolve_round called as a method, whatever the phase: also    *)
(* after the game is over, for MaxLateCalls rounds more than a short game. *)
(***************************************************************************)
LateMenu ==
    [p1 |-> {Act("move", "Admin")},
     p2 |-> {Act("kill", "p1"), Act("kill", "p3"), Act("sabotage", "o2")}]

LateMaps == MapsFor(LateMenu)

CallResolveRound ==
    /\ state.round_number < ShortGameRounds + MaxLateCalls
    /\ \E acts \in LateMaps : resolve_round(acts)

NextLate == CallResolveRound

SpecLate == Init /\ [][NextLate]_vars

(***************************************************************************)
(* SpecWinCheck: _check_win_condition called on a GameState without a       *)
(* winner, drawn over who is alive, how far p1's task is, the round and    *)
(* the sabotage.                                                           *)
(***************************************************************************)
WinCheckSabotages(s) ==
    {NoSabotage, NewSabotage(s, "lights"), NewSabotage(s, "o2"),
     [NewSabotage(s, "o2") EXCEPT !.countdown = <<0>>],
     [NewSabotage(s, "reactor") EXCEPT !.countdown = <<0>>]}

WinCheckInputs ==
    LET s0 == InitialState(GameConfig(ShortCountdown))
    IN {[s0 EXCEPT
            !.players = [p \in PlayerIds |-> [s0.players[p] EXCEPT !.alive = alive[p]]],
            !.tasks["p1"][1].progress = g,
            !.round_number = r,
            !.sabotage = sab] :
          alive \in [PlayerIds -> BOOLEAN],
          g \in 0..(s0.tasks["p1"][1].required + 1),
          r \in {s0.config.max_total_rounds - 1, s0.config.max_total_rounds},
          sab \in WinCheckSabotages(s0)}

InitWinCheck ==
    /\ state \in WinCheckInputs
    /\ actions = <<>>
    /\ op = "init"

check_win_condition ==
    /\ op = "init"
    /\ state' = CheckWinCondition(state)
    /\ actions' = actions
    /\ op' = "check_win_condition"

NextWinCheck == check_win_condition

SpecWinCheck == InitWinCheck /\ [][NextWinCheck]_vars

(***************************************************************************)
(* Properties.  A step of resolve_round is a step with op' = "resolve_round"; *)
(* actions' is then the map it was called with, state the GameState before *)
(* the call and state' the GameState after it.                             *)
(***************************************************************************)
Submits(pid, act, target) ==
    \E i \in 1..Len(actions') :
        actions'[i] = [pid |-> pid, action |-> act, target |-> target]

Submitted(pid, act, target) ==
    \E i \in 1..Len(actions) :
        actions[i] = [pid |-> pid, action |-> act, target |-> target]

\* the round got as far as validating its actions (step 2 did not end it)
Validated == DOMAIN state'.action_results # {}

KillMissed == "Target is not in your room after movement resolved or is dead."

C2_SuccessfulKill ==
    [][\A k \in PlayerIds, v \in PlayerIds :
          ( /\ op' = "resolve_round"
            /\ Validated
            /\ state.players[k].role = "impostor"
            /\ state.players[k].alive
            /\ state.players[k].kill_cooldown <= 1
            /\ state.players[v].role = "crewmate"
            /\ state.players[v].alive
            /\ Submits(k, "kill", v)
            /\ state'.players[v].location = state'.players[k].location )
          => ( /\ ~state'.players[v].alive
               /\ state'.bodies =
                      Append(state.bodies,
                             [player_id |-> v, location |-> state'.players[v].location])
               /\ state'.players[k].kill_cooldown = state.config.kill_cooldown
               /\ state'.action_results[k].action = "kill"
               /\ state'.action_results[k].success )]_vars

C2_Witness ==
    /\ op = "resolve_round"
    /\ \E k \in PlayerIds, v \in PlayerIds :
          /\ Submitted(k, "kill", v)
          /\ state.action_results[k].success
          /\ ~state.players[v].alive
          /\ state.players[k].kill_cooldown = state.config.kill_cooldown
          /\ state.bodies # <<>>
          /\ state.bodies[Len(state.bodies)].player_id = v

\* the players whose report is valid in the state before the round: alive,
\* with a body in their room
ValidReports ==
    {p \in PlayerIds :
        /\ Submits(p, "report", None)
        /\ state.players[p].alive
        /\ \E i \in 1..Len(state.bodies) :
              state.bodies[i].location = state.players[p].location}

\* the players whose emergency call is valid in the state before the round:
\* alive, in the Cafeteria, with a call left and no critical sabotage active
ValidEmergencyCalls ==
    {p \in PlayerIds :
        /\ Submits(p, "call_emergency", None)
        /\ state.players[p].alive
        /\ state.players[p].location = "Cafeteria"
        /\ state.players[p].emergency_meetings_remaining > 0
        /\ ~(state.sabotage.type # None /\ state.sabotage.critical)}

LowestOf(S) == CHOOSE p \in S : \A q \in S : Rank(p) <= Rank(q)

SupersededReason == "Meeting was triggered by another player this round."

\* C3: in a round that no win ends, if at least one valid report or
\* call_emergency is submitted then one meeting is installed: its caller is the
\* lowest player id among the valid reporters if there is one (trigger
\* body_report), otherwise the lowest among the valid emergency callers
\* (trigger emergency_meeting); the phase is DISCUSSION and every other valid
\* report or call_emergency fails as superseded.
C3_MeetingPrecedence ==
    [][( /\ op' = "resolve_round"
         /\ state'.winner = None
         /\ ValidReports \cup ValidEmergencyCalls # {} )
       => LET caller == IF ValidReports # {} THEN LowestOf(ValidReports)
                        ELSE LowestOf(ValidEmergencyCalls)
          IN /\ state'.phase = "discussion"
             /\ state'.meeting_context.called_by = caller
             /\ state'.meeting_context.trigger =
                    IF ValidReports # {} THEN "body_report" ELSE "emergency_meeting"
             /\ state'.action_results[caller].success
             /\ \A o \in (ValidReports \cup ValidEmergencyCalls) \ {caller} :
                   /\ ~state'.action_results[o].success
                   /\ state'.action_results[o].reason = SupersededReason]_vars

\* an emergency caller with the lower id is superseded by a reporter
C3_Witness ==
    /\ op = "resolve_round"
    /\ state.phase = "discussion"
    /\ state.meeting_context.trigger = "body_report"
    /\ \E o \in PlayerIds :
          /\ Submitted(o, "call_emergency", None)
          /\ Rank(o) < Rank(state.meeting_context.called_by)
          /\ ~state.action_results[o].success
          /\ state.action_results[o].reason = SupersededReason

\* C4: when a critical sabotage has countdown 1 at the start of a round, the
\* round ends at step 2 with winner impostors, win_cause sabotage_<type> and
\* phase GAME_OVER, and none of the submitted actions is applied: locations,
\* alive flags, bodies, task progress, fix progress and meeting calls are as
\* before and no action has a result.
C4_CriticalSabotageTimeout ==
    [][( /\ op' = "resolve_round"
         /\ state.winner = None
         /\ state.sabotage.type # None
         /\ state.sabotage.critical
         /\ state.sabotage.countdown = <<1>> )
       => ( /\ state'.winner = "impostors"
            /\ state'.win_cause =
                   (IF state.sabotage.type = "reactor" THEN "sabotage_reactor"
                    ELSE "sabotage_o2")
            /\ state'.phase = "game_over"
            /\ state'.sabotage.countdown = <<0>>
            /\ \A p \in PlayerIds :
                  /\ state'.players[p].location = state.players[p].location
                  /\ state'.players[p].alive = state.players[p].alive
                  /\ state'.players[p].emergency_meetings_remaining =
                         state.players[p].emergency_meetings_remaining
            /\ state'.bodies = state.bodies
            /\ state'.tasks = state.tasks
            /\ state'.sabotage.type = state.sabotage.type
            /\ state'.sabotage.fix_progress = state.sabotage.fix_progress
            /\ state'.meeting_context = state.meeting_context
            /\ DOMAIN state'.action_results = {} )]_vars

\* the countdown ran out in a round in which a move to an adjacent room was
\* submitted, and the mover is still where it was
C4_Witness ==
    /\ op = "resolve_round"
    /\ state.winner = "impostors"
    /\ state.win_cause = "sabotage_o2"
    /\ state.sabotage.countdown = <<0>>
    /\ \E i \in 1..Len(actions) :
          /\ actions[i].action = "move"
          /\ state.players[actions[i].pid].alive
          /\ actions[i].target \in MAP_ADJACENCY[state.players[actions[i].pid].location]

LivingOf(role) ==
    Cardinality({p \in PlayerIds : state.players[p].role = role /\ state.players[p].alive})

\* the cause of the first win condition that holds in the state, in the order
\* of the claim
FirstCause ==
    IF LivingOf("impostor") = 0 THEN "all_impostors_eliminated"
    ELSE IF LivingOf("impostor") >= LivingOf("crewmate") THEN "impostors_majority"
    ELSE IF /\ state.sabotage.type # None
            /\ state.sabotage.critical
            /\ state.sabotage.countdown # <<>>
            /\ state.sabotage.countdown[1] <= 0
    THEN (IF state.sabotage.type = "reactor" THEN "sabotage_reactor" ELSE "sabotage_o2")
    ELSE IF TasksAllDone(state) THEN "all_tasks_completed"
    ELSE IF state.round_number >= state.config.max_total_rounds THEN "timeout"
    ELSE None

WinnerOf(cause) ==
    CASE cause \in {"all_impostors_eliminated", "all_tasks_completed", "timeout"} -> "crewmates"
      [] cause \in {"impostors_majority", "sabotage_reactor", "sabotage_o2"} -> "impostors"
      [] OTHER -> None

\* C5: a win check on a state without a winner sets the winner and the cause of
\* the first condition that holds, in the order: no living impostor (crewmates,
\* all_impostors_eliminated); living impostors >= living crewmates (impostors,
\* impostors_majority); a critical sabotage whose countdown is <= 0 (impostors,
\* sabotage_<type>); all counted tasks complete (crewmates,
\* all_tasks_completed); round_number >= max_total_rounds (crewmates,
\* timeout); it sets the phase to GAME_OVER with the winner, and sets nothing
\* when no condition holds.
C5_WinPriority ==
    [][(op' = "check_win_condition" /\ state.winner = None)
       => /\ state'.win_cause = FirstCause
          /\ state'.winner = WinnerOf(FirstCause)
          /\ state'.phase = (IF FirstCause = None THEN state.phase ELSE "game_over")
          /\ state' = [state EXCEPT !.winner = state'.winner,
                                    !.win_cause = state'.win_cause,
                                    !.phase = state'.phase]]_vars

\* the majority holds together with all tasks complete and the round limit,
\* and the impostors have won by majority
C5_Witness ==
    /\ op = "check_win_condition"
    /\ LivingOf("impostor") > 0
    /\ LivingOf("impostor") >= LivingOf("crewmate")
    /\ TasksAllDone(state)
    /\ state.round_number >= state.config.max_total_rounds
    /\ state.winner = "impostors"
    /\ state.win_cause = "impostors_majority"

\* C6: once winner is set, a further call of resolve_round is a no-op: it
\* leaves the GameState as it found it, round_number, phase, winner and every
\* player and body included.
C6_NoOpAfterWinner ==
    [][(state.winner # None /\ op' = "resolve_round") => state' = state]_vars

AllWaiting == \A i \in 1..Len(actions') : actions'[i].action = "wait"

\* C7 as stated: a round in which every player waits and no win condition is
\* met leaves location, alive, last_action, task progress, bodies,
\* sighting_history, movement_history and game_log unchanged.
C7_WaitRoundChangesOnlyTimers ==
    [][( /\ op' = "resolve_round"
         /\ AllWaiting
         /\ state'.winner = None )
       => ( /\ \A p \in PlayerIds :
                  /\ state'.players[p].location = state.players[p].location
                  /\ state'.players[p].alive = state.players[p].alive
                  /\ state'.players[p].last_action = state.players[p].last_action
            /\ state'.tasks = state.tasks
            /\ state'.bodies = state.bodies
            /\ state'.sighting_history = state.sighting_history
            /\ state'.movement_history = state.movement_history
            /\ state'.game_log = state.game_log )]_vars

\* C7 amended: a round in which every player waits and no win condition is met
\* leaves location, alive, task progress, bodies, movement_history, meeting
\* calls, the sabotage's type and fix progress, the phase and the meeting
\* context unchanged; it increments round_number, decrements the positive
\* cooldowns and the countdown, resets events, the admin snapshot and
\* action_results, sets every player's last_action to idle, records the round's
\* sightings and appends the round to game_log.
C7_WaitRoundFrame ==
    [][( /\ op' = "resolve_round"
         /\ AllWaiting
         /\ state'.winner = None )
       => ( /\ \A p \in PlayerIds :
                  /\ state'.players[p].location = state.players[p].location
                  /\ state'.players[p].alive = state.players[p].alive
                  /\ state'.players[p].ejected = state.players[p].ejected
                  /\ state'.players[p].emergency_meetings_remaining =
                         state.players[p].emergency_meetings_remaining
                  /\ state'.players[p].kill_cooldown =
                         Max(0, state.players[p].kill_cooldown - 1)
                  /\ state'.players[p].last_action = "idle"
                  /\ state'.events[p] = <<>>
                  /\ state'.action_results[p] = Result("wait", TRUE, None)
            /\ state'.tasks = state.tasks
            /\ state'.bodies = state.bodies
            /\ state'.movement_history = state.movement_history
            /\ state'.sabotage.type = state.sabotage.type
            /\ state'.sabotage.fix_progress = state.sabotage.fix_progress
            /\ state'.sabotage.countdown =
                   [i \in DOMAIN state.sabotage.countdown |->
                       state.sabotage.countdown[i] - 1]
            /\ state'.sabotage_cooldown = Max(0, state.sabotage_cooldown - 1)
            /\ state'.phase = state.phase
            /\ state'.meeting_context = state.meeting_context
            /\ state'.admin_table_snapshot = <<>>
            /\ state'.round_number = state.round_number + 1
            /\ Len(state'.game_log) = Len(state.game_log) + 1
            /\ state'.game_log[Len(state'.game_log)].round = state'.round_number
            /\ \A p \in PlayerIds :
                  ( /\ state.players[p].alive
                    /\ ~Blinded(state, p)
                    /\ \E q \in PlayerIds \ {p} :
                          /\ state.players[q].alive
                          /\ state.players[q].location = state.players[p].location )
                  => LET hist == state'.sighting_history[p]
                     IN /\ hist # <<>>
                        /\ hist[Len(hist)].round = state'.round_number
                        /\ hist[Len(hist)].location = state.players[p].location
                        /\ hist[Len(hist)].action = "idle"
                        /\ state.players[hist[Len(hist)].player].location =
                               state.players[p].location )]_vars

\* a second round of waiting, after one that moved somebody
C7_Witness ==
    /\ op = "resolve_round"
    /\ actions = AllWait
    /\ state.winner = None
    /\ Len(state.game_log) >= 2
    /\ \E p \in PlayerIds :
          /\ state.players[p].location # "Cafeteria"
          /\ state.players[p].last_action = "idle"

\* C8: whenever sabotage_cooldown is positive no sabotage is active.
C8_CooldownMeansNoSabotage ==
    state.sabotage_cooldown > 0 => state.sabotage.type = None

\* a sabotage was fixed and the next attempt is refused for the cooldown
C8_Witness ==
    /\ state.sabotage_cooldown > 0
    /\ \E p \in PlayerIds :
          /\ Submitted(p, "sabotage", "o2")
          /\ ~state.action_results[p].success
          /\ state.action_results[p].reason = "Sabotage cooldown active"

BodiesOf(p) == {i \in 1..Len(state.bodies) : state.bodies[i].player_id = p}

\* C9: every body belongs to a player that is dead and not ejected; no player
\* has more than one body; every player that is dead and not ejected has
\* exactly one body (a body stays in the list once reported, so such a player
\* never has none).
C9_BodiesAreTheKilled ==
    /\ \A i \in 1..Len(state.bodies) :
          /\ state.bodies[i].player_id \in PlayerIds
          /\ ~state.players[state.bodies[i].player_id].alive
          /\ ~state.players[state.bodies[i].player_id].ejected
    /\ \A p \in PlayerIds :
          /\ Cardinality(BodiesOf(p)) <= 1
          /\ (~state.players[p].alive /\ ~state.players[p].ejected)
                => Cardinality(BodiesOf(p)) = 1

\* one player was killed and reported, another ejected at the meeting
C9_Witness ==
    /\ op = "run_meeting"
    /\ \E p \in PlayerIds, q \in PlayerIds :
          /\ ~state.players[p].alive
          /\ ~state.players[p].ejected
          /\ Cardinality(BodiesOf(p)) = 1
          /\ state.players[q].ejected
          /\ BodiesOf(q) = {}

\* C10: the phase is DISCUSSION only with a meeting context installed, and it is
\* GAME_OVER exactly when there is a winner.
C10_PhaseMatchesMeetingAndWinner ==
    /\ state.phase = "discussion" =>
          /\ state.meeting_context # NoMeeting
          /\ state.meeting_context.trigger \in {"body_report", "emergency_meeting"}
          /\ state.meeting_context.called_by \in PlayerIds
    /\ state.phase = "game_over" <=> state.winner # None

\* a round has installed a meeting
C10_Witness ==
    /\ op = "resolve_round"
    /\ state.phase = "discussion"
    /\ state.winner = None
    /\ state.meeting_context.called_by \in PlayerIds

\* C11: no step makes round_number smaller or takes progress from a task, and
\* the global task progress done / total lies in [0, 1] before and after it.
C11_Monotonic ==
    [][/\ state'.round_number >= state.round_number
       /\ \A p \in DOMAIN state.tasks :
             /\ Len(state'.tasks[p]) = Len(state.tasks[p])
             /\ \A i \in 1..Len(state.tasks[p]) :
                   state'.tasks[p][i].progress >= state.tasks[p][i].progress
       /\ 0 <= global_task_progress(state)[1]
       /\ global_task_progress(state)[1] <= global_task_progress(state)[2]
       /\ 0 <= global_task_progress(state')[1]
       /\ global_task_progress(state')[1] <= global_task_progress(state')[2]]_vars

\* a task has advanced in the second round or later
C11_Witness ==
    /\ op = "resolve_round"
    /\ state.round_number >= 2
    /\ \E p \in DOMAIN state.tasks : \E i \in 1..Len(state.tasks[p]) :
          /\ state.players[p].role = "crewmate"
          /\ state.tasks[p][i].progress > 0
          /\ global_task_progress(state)[1] > 0

(***************************************************************************)
(* SpecMoves: resolve_round on action maps whose moves name an adjacent    *)
(* room, a room that is not adjacent, the player's own room, something     *)
(* that is no room, or nothing; p1 may be killed and go on as a ghost.      *)
(***************************************************************************)
MoveMenu ==
    [p1 |-> {Act("move", "Admin"), Act("move", "Cafeteria"), Act("move", "Reactor"),
             Act("move", "Nowhere"), Act("move", None), Act(Malformed, None)},
     p2 |-> {Act("kill", "p1"), Act("move", "Storage"), Act("move", "p1")}]

MoveMaps == MapsFor(MoveMenu)

MoveRound ==
    /\ state.phase = "task"
    /\ state.round_number <= ShortGameRounds
    /\ \E acts \in MoveMaps : resolve_round(acts)

NextMoves == MoveRound

SpecMoves == Init /\ [][NextMoves]_vars

\* C12: every player's location, living or dead, is a room of the map.
C12_LocationIsRoom ==
    \A p \in Ids(state) : state.players[p].location \in ALL_ROOMS

\* a ghost that has left the room of its body has just had a move to no room
\* or to nothing refused
C12_Witness ==
    /\ op = "resolve_round"
    /\ \E i \in 1..Len(actions) :
          LET pid == actions[i].pid
          IN /\ actions[i].action = "move"
             /\ actions[i].target \notin ALL_ROOMS
             /\ ~state.players[pid].alive
             /\ ~state.action_results[pid].success
             /\ \E b \in SeqToSet(state.bodies) :
                   b.player_id = pid /\ b.location # state.players[pid].location

PlayersPresent(s, player_id) ==
    LET seen == SelectSeq(AllPlayers(s), LAMBDA p :
                    /\ p # player_id
                    /\ s.players[p].alive
                    /\ s.players[p].location = s.players[player_id].location)
    IN [i \in 1..Len(seen) |->
           [id |-> seen[i], last_action |-> s.players[seen[i]].last_action]]

BodiesPresent(s, player_id) ==
    LET here == SelectSeq(s.bodies, LAMBDA b :
                    b.location = s.players[player_id].location)
    IN [i \in 1..Len(here) |-> here[i].player_id]

RoomObservation(s, player_id) ==
    IF LightsOn(s) /\ s.players[player_id].role = "crewmate"
    THEN [players_present |-> <<>>, bodies_present |-> <<>>]
    ELSE [players_present |-> PlayersPresent(s, player_id),
          bodies_present |-> BodiesPresent(s, player_id)]

(***************************************************************************)
(* SpecLights: a lobby of six with two impostors, all in the Cafeteria.    *)
(* p2 sabotages the lights and kills; p5, the other impostor, and the      *)
(* crewmates stay or walk to Admin.                                        *)
(***************************************************************************)
LobbyIds == {LobbyOrder[i] : i \in 1..Len(LobbyOrder)}

LobbyRoles ==
    [p1 |-> "crewmate", p2 |-> "impostor", p3 |-> "crewmate", p4 |-> "crewmate",
     p5 |-> "impostor", p6 |-> "crewmate"]

LobbyState(config) ==
    [InitialState(config) EXCEPT
       !.players = [p \in LobbyIds |->
                       NewPlayer(LobbyRoles[p], config.emergency_meetings_per_player)],
       !.tasks = [p \in LobbyIds |-> IF p \in PlayerIds THEN InitialTasks[p] ELSE <<>>],
       !.events = [p \in LobbyIds |-> <<>>],
       !.movement_history = [p \in LobbyIds |-> <<>>],
       !.sighting_history = [p \in LobbyIds |-> <<>>]]

LightsMenu ==
    [p1 |-> {Act("move", "Admin")},
     p2 |-> {Act("sabotage", "lights"), Act("kill", "p1"), Act("kill", "p3")},
     p3 |-> {Act("move", "Admin")},
     p5 |-> {Act("move", "Admin")}]

LightsMaps == MapsFor(LightsMenu)

InitLights ==
    /\ state = LobbyState(GameConfig(ShortCountdown))
    /\ actions = <<>>
    /\ op = "init"

LightsRound ==
    /\ state.phase = "task"
    /\ state.round_number <= ShortGameRounds
    /\ \E acts \in LightsMaps : resolve_round(acts)

NextLights == LightsRound

SpecLights == InitLights /\ [][NextLights]_vars

\* C14: with the lights sabotaged, a kill whose victim is in the killer's room
\* after movement succeeds whoever is watching; a living crewmate of that
\* room gets no "was killed" event and, while the lights stay out, its room
\* observation has empty players_present and bodies_present; a living
\* impostor of that room gets the event and sees the body.
C14_LightsBlindKill ==
    [][\A k \in Ids(state), v \in Ids(state), w \in Ids(state) :
          ( /\ op' = "resolve_round"
            /\ w \notin {k, v}
            /\ Validated
            /\ LightsOn(state)
            /\ Submits(k, "kill", v)
            /\ state.players[k].alive
            /\ state.players[k].role = "impostor"
            /\ state.players[k].kill_cooldown <= 1
            /\ state.players[v].alive
            /\ state.players[v].role = "crewmate"
            /\ state'.players[v].location = state'.players[k].location
            /\ \A k2 \in Ids(state) \ {k} : ~Submits(k2, "kill", v)
            /\ state'.players[w].alive
            /\ state'.players[w].location = state'.players[k].location )
          => ( /\ ~state'.players[v].alive
               /\ state'.action_results[k].success
               /\ state'.bodies # <<>>
               /\ state'.bodies[Len(state'.bodies)].player_id = v
               /\ state.players[w].role = "crewmate" =>
                     /\ \A i \in 1..Len(state'.events[w]) :
                           state'.events[w][i][1] # "killed"
                     /\ LightsOn(state') =>
                           /\ RoomObservation(state', w).players_present = <<>>
                           /\ RoomObservation(state', w).bodies_present = <<>>
               /\ state.players[w].role = "impostor" =>
                     /\ \E i \in 1..Len(state'.events[w]) :
                           state'.events[w][i] = <<"killed", v>>
                     /\ \E i \in 1..Len(RoomObservation(state', w).bodies_present) :
                           RoomObservation(state', w).bodies_present[i] = v ) ]_vars

\* under the lights sabotage p2 has killed in a room that holds a living
\* crewmate and the living impostor p5
C14_Witness ==
    /\ op = "resolve_round"
    /\ LightsOn(state)
    /\ state.winner = None
    /\ \E v \in Ids(state), w \in Ids(state) :
          /\ Submitted("p2", "kill", v)
          /\ state.action_results["p2"].success
          /\ ~state.players[v].alive
          /\ state.players[w].alive
          /\ state.players[w].role = "crewmate"
          /\ state.players[w].location = state.players["p2"].location
          /\ state.players["p5"].alive
          /\ state.players["p5"].location = state.players["p2"].location
          /\ state.events[w] = <<>>
          /\ state.events["p5"] = <<<<"killed", v>>>>
          /\ RoomObservation(state, w).bodies_present = <<>>
          /\ RoomObservation(state, "p5").bodies_present = <<v>>

(***************************************************************************)
(* SpecTasks: p1 holds the visual task Body Scan in MedBay, p4 the plain   *)
(* task Upload Data in Admin.  In the first round p1 and p3 walk to MedBay *)
(* and p2 and p4 to Admin; then the crewmates work or walk back and p2 may *)
(* put the lights out or try its own task in Admin.                        *)
(***************************************************************************)
VisualTasks ==
    [p1 |-> <<NewTask("tv", "Body Scan", "MedBay", 3, TRUE)>>,
     p2 |-> <<NewTask("t2", "Swipe Card", "Admin", 2, FALSE)>>,
     p3 |-> <<>>,
     p4 |-> <<NewTask("tn", "Upload Data", "Admin", 2, FALSE)>>]

WalkToTasks ==
    << <<Entry("p1", Act("move", "MedBay")), Entry("p2", Act("move", "Admin")),
         Entry("p3", Act("move", "MedBay")), Entry("p4", Act("move", "Admin"))>> >>

TaskMenu ==
    [p1 |-> {Act("do_task", "tv"), Act("move", "Cafeteria")},
     p2 |-> {Act("sabotage", "lights"), Act("do_task", "t2")},
     p3 |-> {Act("move", "Cafeteria")},
     p4 |-> {Act("do_task", "tn")}]

TaskMaps == MapsFor(TaskMenu)

InitTasks ==
    /\ state = [InitialState(GameConfig(ShortCountdown)) EXCEPT !.tasks = VisualTasks]
    /\ actions = <<>>
    /\ op = "init"

TaskWalkRound ==
    /\ state.phase = "task"
    /\ state.round_number < Len(WalkToTasks)
    /\ resolve_round(WalkToTasks[state.round_number + 1])

TaskRound ==
    /\ state.phase = "task"
    /\ state.round_number >= Len(WalkToTasks)
    /\ state.round_number < Len(WalkToTasks) + WorkRounds
    /\ \E acts \in TaskMaps : resolve_round(acts)

NextTasks == TaskWalkRound \/ TaskRound

SpecTasks == InitTasks /\ [][NextTasks]_vars

\* the "completed visual task" events of player w in the state s
VisualEvents(s, w) ==
    {s.events[w][i] : i \in {j \in 1..Len(s.events[w]) : s.events[w][j][1] = "visual"}}

\* C15: when a round takes a visual task of player d from required - 1 to
\* required, every other living, non-blinded player in d's room has the
\* "completed visual task" event of d and no player in another room has it;
\* nobody has such an event of a player whose round completed no visual task.
C15_VisualTaskWitness ==
    [][op' = "resolve_round" =>
         \A d \in Ids(state) :
            LET done == \E i \in 1..Len(state.tasks[d]) :
                           /\ state.tasks[d][i].visual
                           /\ state.tasks[d][i].progress = state.tasks[d][i].required - 1
                           /\ state'.tasks[d][i].progress = state.tasks[d][i].required
            IN \A w \in Ids(state) :
                  LET seen == \E e \in VisualEvents(state', w) : e[2] = d
                  IN IF /\ done
                        /\ w # d
                        /\ state'.players[w].alive
                        /\ ~Blinded(state, w)
                        /\ state'.players[w].location = state'.players[d].location
                     THEN seen
                     ELSE (~done \/ state'.players[w].location # state'.players[d].location)
                             => ~seen]_vars

\* p1 has completed Body Scan in front of p3, who has the event, while p2 and
\* p4 in Admin have none, and p4 has completed Upload Data unseen
C15_Witness ==
    /\ op = "resolve_round"
    /\ Submitted("p1", "do_task", "tv")
    /\ Submitted("p4", "do_task", "tn")
    /\ completed(state.tasks["p1"][1])
    /\ completed(state.tasks["p4"][1])
    /\ state.events["p3"] = <<<<"visual", "p1", "Body Scan", "MedBay">>>>
    /\ state.events["p2"] = <<>>
    /\ state.events["p4"] = <<>>
    /\ state.events["p1"] = <<>>

(***************************************************************************)
(* SpecMeeting: rounds in which a meeting is called while other players    *)
(* sabotage, fix or read the admin table: p1 walks to Admin, an o2 fix     *)
(* room, p2 sabotages o2 or kills p4, p3 reports or calls an emergency.    *)
(***************************************************************************)
MeetingMenu ==
    [p1 |-> {Act("move", "Admin"), Act("fix_sabotage", None), Act("use_admin", None)},
     p2 |-> {Act("sabotage", "o2"), Act("kill", "p4")},
     p3 |-> {Act("report", None), Act("call_emergency", None)}]

MeetingMaps == MapsFor(MeetingMenu)

MeetingRound ==
    /\ state.phase = "task"
    /\ state.round_number <= ShortGameRounds
    /\ \E acts \in MeetingMaps : resolve_round(acts)

NextMeeting == MeetingRound

SpecMeeting == InitSabotage /\ [][NextMeeting]_vars

\* C16: a round that installs a meeting installs no sabotage, changes no
\* fix_progress, stores no admin snapshot and appends nothing to
\* sighting_history or game_log, whatever passed validation in it.
C16_MeetingRoundStopsAtStep7 ==
    [][( /\ op' = "resolve_round"
         /\ state.phase = "task"
         /\ state'.phase = "discussion" )
       => ( /\ state'.sabotage.type = state.sabotage.type
            /\ state'.sabotage.fix_progress = state.sabotage.fix_progress
            /\ state'.sabotage_cooldown = Max(state.sabotage_cooldown - 1, 0)
            /\ state'.admin_table_snapshot = <<>>
            /\ state'.sighting_history = state.sighting_history
            /\ state'.game_log = state.game_log )]_vars

\* a report has installed a meeting in a round in which p1's fix_sabotage,
\* in a fix room of the active sabotage, passed validation
C16_Witness ==
    /\ op = "resolve_round"
    /\ state.phase = "discussion"
    /\ state.meeting_context.trigger = "body_report"
    /\ Submitted("p1", "fix_sabotage", None)
    /\ state.action_results["p1"].success
    /\ state.sabotage.type = "o2"
    /\ state.sabotage.fix_progress["Admin"] = 0
    /\ state.players["p1"].location = "Admin"

\* C17 as stated: after a round that installs a body_report meeting, the body
\* named in meeting_context (the first body in the caller's room) is no
\* longer in bodies and every other body is still there.
C17_ReportConsumesBody ==
    [][( /\ op' = "resolve_round"
         /\ state.phase = "task"
         /\ state'.phase = "discussion"
         /\ state'.meeting_context.trigger = "body_report" )
       => LET found == [player_id |-> state'.meeting_context.body_found,
                        location |-> state'.meeting_context.body_location]
          IN /\ found \notin SeqToSet(state'.bodies)
             /\ \A b \in SeqToSet(state.bodies) \ {found} :
                   b \in SeqToSet(state'.bodies)]_vars

(***************************************************************************)
(* SpecEmergency: p1 and p3 call emergency meetings, p2 kills p4 and       *)
(* reports; a meeting that ejects nobody returns the game to TASK.         *)
(***************************************************************************)
EmergencyMenu ==
    [p1 |-> {Act("call_emergency", None), Act("move", "Admin")},
     p2 |-> {Act("kill", "p4"), Act("report", None)},
     p3 |-> {Act("call_emergency", None)}]

EmergencyMaps == MapsFor(EmergencyMenu)

EmergencyRound ==
    /\ state.phase = "task"
    /\ state.round_number <= ShortGameRounds
    /\ \E acts \in EmergencyMaps : resolve_round(acts)

AdjournMeeting ==
    /\ state.phase = "discussion"
    /\ state' = RunMeeting(state, None)
    /\ actions' = <<>>
    /\ op' = "run_meeting"

NextEmergency == EmergencyRound \/ AdjournMeeting

SpecEmergency == Init /\ [][NextEmergency]_vars

\* C18: a round takes one emergency meeting from the player whose emergency
\* meeting it installs and none from anybody else, so a call that is
\* superseded or fails validation costs nothing; no player's
\* emergency_meetings_remaining is ever negative.
C18_EmergencyAllowance ==
    [][/\ \A p \in Ids(state) :
             /\ state.players[p].emergency_meetings_remaining >= 0
             /\ state'.players[p].emergency_meetings_remaining >= 0
       /\ op' = "resolve_round" =>
             \A p \in Ids(state) :
                state'.players[p].emergency_meetings_remaining =
                    IF /\ state'.phase = "discussion"
                       /\ state'.meeting_context.trigger = "emergency_meeting"
                       /\ state'.meeting_context.called_by = p
                    THEN state.players[p].emergency_meetings_remaining - 1
                    ELSE state.players[p].emergency_meetings_remaining]_vars

\* p1, its allowance used up in an earlier meeting, has called again and
\* failed validation, and the meeting is p3's, who has paid for it
C18_Witness ==
    /\ op = "resolve_round"
    /\ Submitted("p1", "call_emergency", None)
    /\ Submitted("p3", "call_emergency", None)
    /\ state.action_results["p1"].reason = "No meetings left"
    /\ state.meeting_context.trigger = "emergency_meeting"
    /\ state.meeting_context.called_by = "p3"
    /\ state.players["p1"].emergency_meetings_remaining = 0
    /\ state.players["p3"].emergency_meetings_remaining = MeetingsPerPlayer - 1

\* C19 as stated: while a sabotage is active, fix_progress[r] <= fix_required[r]
\* for every fix room r.
C19_FixProgressCapped ==
    state.sabotage.type # None =>
        \A r \in DOMAIN state.sabotage.fix_progress :
            state.sabotage.fix_progress[r] <= state.sabotage.fix_required[r]

\* the state validation reads: the state before the round after steps 0 to 2
AtValidation(s) == TickCountdown(DecrementCooldowns(ClearTransient(s)))

\* the action map with its i-th entry replaced by an explicit wait
WithWait(acts, i) == [acts EXCEPT ![i] = Entry(acts[i].pid, WaitAction)]

\* C20: an action that fails validation has a failed result and the round
\* leaves, but for that result, the state it leaves when the player submits
\* wait instead (locations, alive flags, bodies, task progress, sabotage,
\* cooldowns, meeting state and all the rest); a player absent from the
\* action map has a successful wait result.
C20_FailedActionIsWait ==
    [][( /\ op' = "resolve_round"
         /\ Validated )
       => ( /\ \A i \in 1..Len(actions') :
                  LET pid == actions'[i].pid
                  IN ~Validate(AtValidation(state), pid, actions'[i]).success
                     => /\ ~state'.action_results[pid].success
                        /\ [state' EXCEPT !.action_results[pid] = None]
                              = [ResolveRound(state, WithWait(actions', i))
                                    EXCEPT !.action_results[pid] = None]
            /\ \A p \in Ids(state) \ SubmittedBy(actions') :
                  state'.action_results[p] = Result("wait", TRUE, None) )]_vars

\* a round in which one player's action failed validation, another's took
\* effect and a third player was absent from the map
C20_Witness ==
    /\ op = "resolve_round"
    /\ state.action_results # <<>>
    /\ \E i, j \in 1..Len(actions) :
          /\ actions[i].action # "wait"
          /\ ~state.action_results[actions[i].pid].success
          /\ state.action_results[actions[i].pid].reason
                \in {"Wrong room for task", "No body to report", "Invalid target",
                     "Sabotage already active", "Invalid move target"}
          /\ state.players[actions[i].pid].last_action = "idle"
          /\ actions[j].action \in {"move", "sabotage"}
          /\ state.action_results[actions[j].pid].success
    /\ \E p \in Ids(state) \ SubmittedBy(actions) :
          state.action_results[p] = Result("wait", TRUE, None)

\* C21: every entry of action_results has a reason exactly when its success
\* is false.
C21_ReasonIffFailed ==
    \A p \in DOMAIN state.action_results :
        (state.action_results[p].reason # None) <=> ~state.action_results[p].success

\* a round in which one report installed the meeting and another was
\* superseded, after a round in which a kill succeeded
C21_Witness ==
    /\ op = "resolve_round"
    /\ state.bodies # <<>>
    /\ \E p, q \in DOMAIN state.action_results :
          /\ Submitted(p, "report", None)
          /\ state.action_results[p].success
          /\ state.action_results[p].reason = None
          /\ Submitted(q, "report", None)
          /\ ~state.action_results[q].success
          /\ state.action_results[q].reason = SupersededReason

(***************************************************************************)
(* SpecTimeout: a game with max_total_rounds = RoundLimit, driven as the   *)
(* driver drives it until GAME_OVER: a round while the phase is TASK, a    *)
(* meeting while it is DISCUSSION.  Every round increments round_number,   *)
(* so the game ends if round_number is bounded while no winner is set.     *)
(* The guard on the round lets the game run one round past the limit,      *)
(* should the resolver not end it.                                         *)
(***************************************************************************)
TimeoutMenu ==
    [p1 |-> {Act("call_emergency", None), Act("move", "Admin")},
     p2 |-> {Act("kill", "p3"), Act("sabotage", "o2")},
     p3 |-> {Act("report", None)}]

TimeoutMaps == MapsFor(TimeoutMenu) \cup {AllWait}

InitTimeout ==
    /\ state = InitialState([GameConfig(ShortCountdown) EXCEPT
                                !.max_total_rounds = RoundLimit])
    /\ actions = <<>>
    /\ op = "init"

TimeoutRound ==
    /\ state.phase = "task"
    /\ state.round_number <= state.config.max_total_rounds
    /\ \E acts \in TimeoutMaps : resolve_round(acts)

NextTimeout == TimeoutRound \/ HoldMeeting

SpecTimeout == InitTimeout /\ [][NextTimeout]_vars

\* no win condition other than the round limit holds in the state
OnlyTheLimitLeft(s) ==
    /\ Living(s, "impostor") > 0
    /\ Living(s, "impostor") < Living(s, "crewmate")
    /\ ~CountdownExpired(s)
    /\ ~TasksAllDone(s)

\* C22: every step of a driven game leaves round_number at most
\* max_total_rounds and, once round_number has reached max_total_rounds, a
\* winner; a round in which every player waits and no other win condition
\* holds ends the game exactly when it is round max_total_rounds, with
\* winner crewmates and cause timeout.
C22_EndsByRoundLimit ==
    [][/\ state'.round_number <= state.config.max_total_rounds
       /\ state'.round_number >= state.config.max_total_rounds => state'.winner # None
       /\ ( /\ op' = "resolve_round"
            /\ AllWaiting
            /\ state.winner = None
            /\ OnlyTheLimitLeft(state') )
          => IF state'.round_number = state.config.max_total_rounds
             THEN /\ state'.winner = "crewmates"
                  /\ state'.win_cause = "timeout"
                  /\ state'.phase = "game_over"
             ELSE state'.winner = None]_vars

\* every player has waited in every round and the game has ended by timeout
\* in round max_total_rounds
C22_Witness ==
    /\ op = "resolve_round"
    /\ actions = AllWait
    /\ state.winner = "crewmates"
    /\ state.win_cause = "timeout"
    /\ state.round_number = RoundLimit
    /\ Len(state.game_log) = RoundLimit - 1
    /\ \A p \in PlayerIds :
          /\ state.players[p].alive
          /\ state.players[p].location = "Cafeteria"
          /\ state.players[p].emergency_meetings_remaining = MeetingsPerPlayer
    /\ state.sabotage.type = None
    /\ state.sabotage_cooldown = 0

\* ObservationGenerator.generate_task_observation: available_actions
AvailableActions(s, player_id) ==
    LET player == s.players[player_id]
    IN [can_report |-> Len(RoomObservation(s, player_id).bodies_present) > 0,
        can_emergency |-> /\ player.location = "Cafeteria"
                          /\ player.emergency_meetings_remaining > 0
                          /\ (s.sabotage.type = None \/ ~s.sabotage.critical),
        can_kill |-> player.role = "impostor" /\ player.kill_cooldown = 0,
        can_sabotage |-> /\ player.role = "impostor"
                         /\ s.sabotage.type = None
                         /\ s.sabotage_cooldown = 0,
        can_fix |-> /\ s.sabotage.type # None
                    /\ player.location \in DOMAIN s.sabotage.fix_required]

\* C23 as stated: in the task observation of a living player, can_report is
\* true exactly when a body is in the player's room (under a lights sabotage
\* too), can_emergency when the player is in the spawn room with a meeting
\* left and no critical sabotage, can_kill for an impostor with kill_cooldown
\* 0, can_sabotage for an impostor with no active sabotage and
\* sabotage_cooldown 0, can_fix when the player is in a fix room of the
\* active sabotage.
C23_AvailableActions ==
    \A p \in Ids(state) :
        state.players[p].alive =>
            AvailableActions(state, p) =
                [can_report |-> \E i \in 1..Len(state.bodies) :
                                   state.bodies[i].location = state.players[p].location,
                 can_emergency |-> /\ state.players[p].location = "Cafeteria"
                                   /\ state.players[p].emergency_meetings_remaining > 0
                                   /\ ~(state.sabotage.type # None /\ state.sabotage.critical),
                 can_kill |-> /\ state.players[p].role = "impostor"
                              /\ state.players[p].kill_cooldown = 0,
                 can_sabotage |-> /\ state.players[p].role = "impostor"
                                  /\ state.sabotage.type = None
                                  /\ state.sabotage_cooldown = 0,
                 can_fix |-> /\ state.sabotage.type # None
                             /\ state.players[p].location
                                   \in DOMAIN state.sabotage.fix_required]

(***************************************************************************)
(* SpecProgress: _global_task_progress and the win check on GameStates     *)
(* drawn over the tasks the crewmates p1 and p3 hold (none, or one at any  *)
(* progress up to its requirement), with the impostor p2 holding its task, *)
(* and over who is alive.                                                  *)
(***************************************************************************)
TaskDraws(tid, name, loc, req) ==
    {<<>>} \cup {<<[NewTask(tid, name, loc, req, FALSE) EXCEPT !.progress = g]>> :
                    g \in 0..req}

ProgressInputs ==
    LET s0 == InitialState(GameConfig(ShortCountdown))
    IN {[s0 EXCEPT
            !.players = [p \in PlayerIds |-> [s0.players[p] EXCEPT !.alive = alive[p]]],
            !.tasks["p1"] = t1,
            !.tasks["p3"] = t3] :
          alive \in [PlayerIds -> BOOLEAN],
          t1 \in TaskDraws("t1", "Upload Data", "Admin", 2),
          t3 \in TaskDraws("t3", "Fix Wiring", "Electrical", 3)}

InitProgress ==
    /\ state \in ProgressInputs
    /\ actions = <<>>
    /\ op = "init"

NextProgress == check_win_condition

SpecProgress == InitProgress /\ [][NextProgress]_vars

\* the sum of f over the finite set S
RECURSIVE SumOver(_, _)
SumOver(S, f) ==
    IF S = {} THEN 0
    ELSE LET x == CHOOSE y \in S : TRUE IN f[x] + SumOver(S \ {x}, f)

\* the task instances <<owner, index>> of the crewmates, living or dead
CrewTaskInstances ==
    UNION {{<<p, i>> : i \in 1..Len(state.tasks[p])} :
              p \in {q \in Ids(state) : state.players[q].role = "crewmate"}}

\* C24: global task progress is the sum of min(progress, required) over the
\* crewmates' task instances (living or dead, never an impostor's) divided by
\* the sum of their required, and 0 when that sum is 0; a win check that no
\* earlier condition decides declares all_tasks_completed exactly when this
\* value is at least 1.
C24_GlobalTaskProgress ==
    [][op' = "check_win_condition" =>
         LET I == CrewTaskInstances
             done == SumOver(I, [x \in I |->
                        Min(state.tasks[x[1]][x[2]].progress,
                            state.tasks[x[1]][x[2]].required)])
             total == SumOver(I, [x \in I |-> state.tasks[x[1]][x[2]].required])
             g == global_task_progress(state)
         IN /\ g = (IF total > 0 THEN <<done, total>> ELSE <<0, 1>>)
            /\ ( /\ Living(state, "impostor") > 0
                 /\ Living(state, "impostor") < Living(state, "crewmate") )
               => (state'.win_cause = "all_tasks_completed" <=> g[1] >= g[2])]_vars

\* the crewmates have won by tasks: the tasks of p1 and of the dead p3 are
\* complete and the impostor's task is untouched
C24_Witness ==
    /\ op = "check_win_condition"
    /\ state.win_cause = "all_tasks_completed"
    /\ state.tasks["p1"] # <<>>
    /\ state.tasks["p1"][1].progress = state.tasks["p1"][1].required
    /\ ~state.players["p3"].alive
    /\ state.tasks["p3"] # <<>>
    /\ state.tasks["p3"][1].progress = state.tasks["p3"][1].required
    /\ state.tasks["p2"][1].progress = 0
    /\ global_task_progress(state) = <<5, 5>>

(***************************************************************************)
(* SpecGhost: a lobby of six with ghost_tasks_enabled either way.  p1 and  *)
(* p2 walk to Admin, p2 kills p1 there, p3 calls a meeting that ejects the *)
(* impostor p5.  Then the ghost p1 (a crewmate beside its body and its     *)
(* task, in a fix room of o2) or the ghost p5 (an impostor in the          *)
(* Cafeteria, cooldowns at 0) submits an action, alone or while the living *)
(* p2 sabotages o2.                                                        *)
(***************************************************************************)
GhostPrelude ==
    << <<Entry("p1", Act("move", "Admin")), Entry("p2", Act("move", "Admin"))>>,
       <<Entry("p2", Act("kill", "p1"))>>,
       <<Entry("p3", Act("call_emergency", None))>> >>

GhostMenu ==
    [p1 |-> {Act("move", "Cafeteria"), Act("move", "Reactor"), Act("do_task", "t1"),
             Act("report", None), Act("fix_sabotage", None), Act("use_admin", None)},
     p5 |-> {Act("kill", "p3"), Act("call_emergency", None), Act("sabotage", "o2"),
             Act("fake_task", None), Act("do_task", "t1")}]

GhostMaps ==
    LET ghost == {<<Entry(g, a)>> : g \in DOMAIN GhostMenu, a \in UNION {GhostMenu[h] : h \in DOMAIN GhostMenu}}
        own == {m \in ghost : Act(m[1].action, m[1].target) \in GhostMenu[m[1].pid]}
    IN own \cup {<<Entry("p2", Act("sabotage", "o2"))>> \o m : m \in own}

InitGhost ==
    /\ \E enabled \in BOOLEAN :
          state = LobbyState([GameConfig(LongCountdown) EXCEPT
                                 !.ghost_tasks_enabled = enabled])
    /\ actions = <<>>
    /\ op = "init"

GhostPreludeRound ==
    /\ state.phase = "task"
    /\ state.round_number < Len(GhostPrelude)
    /\ resolve_round(GhostPrelude[state.round_number + 1])

GhostEjection ==
    /\ state.phase = "discussion"
    /\ state' = RunMeeting(state, "p5")
    /\ actions' = <<>>
    /\ op' = "run_meeting"

GhostRound ==
    /\ state.phase = "task"
    /\ state.round_number >= Len(GhostPrelude)
    /\ state.round_number < Len(GhostPrelude) + GhostRounds
    /\ \E acts \in GhostMaps : resolve_round(acts)

NextGhost == GhostPreludeRound \/ GhostEjection \/ GhostRound

SpecGhost == InitGhost /\ [][NextGhost]_vars

\* the action of entry e is one _validate accepts from the dead player e.pid
GhostMay(s, e) ==
    LET p == s.players[e.pid]
    IN \/ e.action = "wait"
       \/ e.action = "move" /\ e.target \in Adjacent(p.location)
       \/ /\ e.action = "do_task"
          /\ s.config.ghost_tasks_enabled
          /\ p.role = "crewmate"
          /\ \E j \in 1..Len(s.tasks[e.pid]) :
                /\ s.tasks[e.pid][j].task_id = e.target
                /\ s.tasks[e.pid][j].progress < s.tasks[e.pid][j].required
                /\ s.tasks[e.pid][j].location = p.location

\* the living players that submit the action act in the map acts
LivingActors(s, acts, act) ==
    {acts[j].pid : j \in {k \in 1..Len(acts) :
                            acts[k].action = act /\ s.players[acts[k].pid].alive}}

\* C25: in a round, the action of a dead player succeeds exactly when it is a
\* wait, a move to a room adjacent to the player's, or, with
\* ghost_tasks_enabled, a do_task of a crewmate on an incomplete task of its
\* own in its room; a player dies in the round only if a living player
\* submitted a kill on it, a meeting is installed only in the name of a
\* living player, a sabotage is installed only if a living player submitted
\* one, and the fix progress moves only if a living player submitted a fix.
C25_GhostActions ==
    [][op' = "resolve_round" =>
         /\ \A i \in 1..Len(actions') :
               ~state.players[actions'[i].pid].alive =>
                  (state'.action_results[actions'[i].pid].success
                      <=> GhostMay(state, actions'[i]))
         /\ \A t \in Ids(state) :
               (state.players[t].alive /\ ~state'.players[t].alive) =>
                  \E j \in 1..Len(actions') :
                     /\ actions'[j].action = "kill"
                     /\ actions'[j].target = t
                     /\ state.players[actions'[j].pid].alive
         /\ state'.meeting_context # NoMeeting =>
               state.players[state'.meeting_context.called_by].alive
         /\ (state.sabotage = NoSabotage /\ state'.sabotage # NoSabotage) =>
               LivingActors(state, actions', "sabotage") # {}
         /\ (state.sabotage # NoSabotage /\ LivingActors(state, actions', "fix_sabotage") = {}) =>
               /\ state'.sabotage # NoSabotage
               /\ state'.sabotage.fix_progress = state.sabotage.fix_progress]_vars

\* the ghost p1, in Admin beside its body, has submitted a fix of the o2
\* sabotage that was installed in an earlier round; the fix was refused
C25_Witness ==
    /\ op = "resolve_round"
    /\ ~state.players["p1"].alive
    /\ state.players["p1"].location = "Admin"
    /\ \E i \in 1..Len(actions) :
          actions[i].pid = "p1" /\ actions[i].action = "fix_sabotage"
    /\ state.sabotage.type = "o2"
    /\ state.sabotage.countdown # <<state.config.sabotage_countdown>>
    /\ state.sabotage.fix_progress["Admin"] = 0
    /\ ~state.action_results["p1"].success
    /\ state.action_results["p1"].reason = "Ghosts can only move or do tasks"

\* the entries of the last action map in which player p submits a do_task of
\* the task with id tid
DoTaskEntries(p, tid) ==
    {j \in 1..Len(actions') :
        /\ actions'[j].pid = p
        /\ actions'[j].action = "do_task"
        /\ actions'[j].target = tid}

\* C26: after every step each task has 0 <= progress <= required; a step
\* leaves a task's progress alone or raises it by 1, and raises it only if it
\* is a round in which the owner, a crewmate in the task's room, submitted a
\* do_task of the incomplete task and the action succeeded; a do_task of a
\* completed task fails and leaves the progress alone.
C26_TaskProgressBounds ==
    [][\A p \in Ids(state) : \A i \in 1..Len(state.tasks[p]) :
          LET t == state.tasks[p][i]
              progress == state'.tasks[p][i].progress
          IN /\ 0 <= progress /\ progress <= t.required
             /\ progress \in {t.progress, t.progress + 1}
             /\ progress = t.progress + 1 =>
                   /\ op' = "resolve_round"
                   /\ DoTaskEntries(p, t.task_id) # {}
                   /\ state'.action_results[p].success
                   /\ state.players[p].role = "crewmate"
                   /\ t.progress < t.required
                   /\ t.location = state.players[p].location
             /\ (op' = "resolve_round" /\ DoTaskEntries(p, t.task_id) # {}
                    /\ t.progress >= t.required) =>
                   /\ ~state'.action_results[p].success
                   /\ progress = t.progress]_vars

\* p4 has submitted a do_task of its completed task Upload Data and was
\* refused, while p1's Body Scan is one short of its requirement
C26_Witness ==
    /\ op = "resolve_round"
    /\ \E j \in 1..Len(actions) :
          actions[j] = Entry("p4", Act("do_task", "tn"))
    /\ state.tasks["p4"][1].progress = state.tasks["p4"][1].required
    /\ ~state.action_results["p4"].success
    /\ state.action_results["p4"].reason = "Task already complete"
    /\ state.tasks["p1"][1].progress = state.tasks["p1"][1].required - 1

(***************************************************************************)
(* SpecRoutes: p1 and p2 walk to Admin while p3 and p4 stay in the         *)
(* Cafeteria.  Then any of p1, p2 and p3 act: p1 walks back, p3 walks to   *)
(* Admin, p2 walks back, kills p1 or puts the lights out; a killed p1 goes *)
(* on walking as a ghost and p4 stays where it is.                         *)
(***************************************************************************)
RoutePrelude ==
    << <<Entry("p1", Act("move", "Admin")), Entry("p2", Act("move", "Admin"))>> >>

RouteMenu ==
    [p1 |-> {Act("move", "Cafeteria")},
     p2 |-> {Act("move", "Cafeteria"), Act("kill", "p1"), Act("sabotage", "lights")},
     p3 |-> {Act("move", "Admin")}]

RouteMaps == UNION {MapsOver(Sorted(S), RouteMenu) : S \in SUBSET DOMAIN RouteMenu}

RoutePreludeRound ==
    /\ state.phase = "task"
    /\ state.round_number < Len(RoutePrelude)
    /\ resolve_round(RoutePrelude[state.round_number + 1])

RouteRound ==
    /\ state.phase = "task"
    /\ state.round_number >= Len(RoutePrelude)
    /\ state.round_number < Len(RoutePrelude) + RouteRounds
    /\ \E acts \in RouteMaps : resolve_round(acts)

NextRoutes == RoutePreludeRound \/ RouteRound

SpecRoutes == Init /\ [][NextRoutes]_vars

\* the moves of the action map acts that go to a room adjacent to the
\* mover's room in the state s
Movers(s, acts) ==
    {[pid |-> acts[j].pid, origin |-> s.players[acts[j].pid].location,
      target |-> acts[j].target] :
        j \in {k \in 1..Len(acts) :
                  /\ acts[k].action = "move"
                  /\ acts[k].target \in Adjacent(s.players[acts[k].pid].location)}}

\* how often the event ev occurs in the sequence evs
Occurrences(evs, ev) == Cardinality({i \in 1..Len(evs) : evs[i] = ev})

\* C27: in a round, a living player who did not move has, for every mover
\* going from A to B, the event "<mover> left toward B" once if it is in A
\* and not otherwise, and the event "<mover> arrived from A" once if it is
\* in B and not otherwise, and it has no "passed" event; a player who moved
\* has no "left" and no "arrived" event and has, for every other mover,
\* the "passed" event naming it once if their routes are mirrored and not
\* otherwise.
C27_MovementEvents ==
    [][op' = "resolve_round" =>
         LET M == Movers(state, actions')
             moved == {m.pid : m \in M}
         IN \A w \in Ids(state) :
               LET evs == state'.events[w]
                   at == state.players[w].location
               IN /\ (state.players[w].alive /\ w \notin moved) =>
                        /\ \A m \in M :
                              /\ Occurrences(evs, <<"left", m.pid, m.target>>)
                                    = (IF at = m.origin THEN 1 ELSE 0)
                              /\ Occurrences(evs, <<"arrived", m.pid, m.origin>>)
                                    = (IF at = m.target THEN 1 ELSE 0)
                        /\ \A i \in 1..Len(evs) :
                              /\ evs[i][1] # "passed"
                              /\ evs[i][1] \in {"left", "arrived"} =>
                                    evs[i][2] \in moved \ {w}
                  /\ w \in moved =>
                        /\ \A i \in 1..Len(evs) : evs[i][1] \notin {"left", "arrived"}
                        /\ \A m \in M : \A n \in M :
                              (m.pid = w /\ n.pid # w) =>
                                 Occurrences(evs, <<"passed", n.pid, m.origin, m.target>>)
                                    = (IF n.origin = m.target /\ n.target = m.origin
                                       THEN 1 ELSE 0)
                        /\ \A i \in 1..Len(evs) :
                              evs[i][1] = "passed" => evs[i][2] \in moved \ {w}]_vars

\* the ghost p1 has walked from Admin to the Cafeteria and p3 the other way:
\* each has passed the other, p4 in the Cafeteria with the lights out has seen
\* p3 leave and p1 arrive, and p2 in Admin has seen p1 leave and p3 arrive
C27_Witness ==
    /\ op = "resolve_round"
    /\ ~state.players["p1"].alive
    /\ state.events["p1"] = << <<"passed", "p3", "Admin", "Cafeteria">> >>
    /\ state.events["p3"] = << <<"passed", "p1", "Cafeteria", "Admin">> >>
    /\ LightsOn(state)
    /\ state.action_results["p2"].action = "wait"
    /\ state.players["p4"].alive
    /\ Occurrences(state.events["p4"], <<"left", "p3", "Admin">>) = 1
    /\ Occurrences(state.events["p4"], <<"arrived", "p1", "Admin">>) = 1
    /\ Occurrences(state.events["p2"], <<"left", "p1", "Cafeteria">>) = 1
    /\ Occurrences(state.events["p2"], <<"arrived", "p3", "Cafeteria">>) = 1

(***************************************************************************)
(* The tournament scheduler (src/engine/tournament.py).  In the tournament *)
(* specifications state is the TournamentRunner and the schedule it has    *)
(* produced.                                                               *)
(*                                                                         *)
(* The quota is computed in floating point, ceil(G * (i / n)), so the      *)
(* model carries binary64 values: a value is a record [bits, exp] that     *)
(* stands for the integer spelled by bits (most significant first) times   *)
(* 2^exp, and both operations round to FloatBits significant bits, ties to *)
(* even.                                                                   *)
(***************************************************************************)
FloatBits == 53

\* the significand is multiplied a quarter at a time
LimbBits == FloatBits \div 4

Front(q) == SubSeq(q, 1, Len(q) - 1)

RECURSIVE BitsOf(_)
BitsOf(n) == IF n = 0 THEN <<>> ELSE BitsOf(n \div 2) \o <<n % 2>>

RECURSIVE IntOf(_)
IntOf(bits) == IF bits = <<>> THEN 0 ELSE 2 * IntOf(Front(bits)) + bits[Len(bits)]

\* the n low bits of the integer v
LowBits(v, n) == [i \in 1..n |-> (v \div 2^(n - i)) % 2]

AnySet(bits) == \E i \in 1..Len(bits) : bits[i] = 1

\* the bits of the integer spelled by bits plus one
Increment(bits) ==
    LET zeros == {i \in 1..Len(bits) : bits[i] = 0}
        p == CHOOSE i \in zeros : \A j \in zeros : j <= i
    IN IF zeros = {} THEN <<1>> \o [i \in 1..Len(bits) |-> 0]
       ELSE [i \in 1..Len(bits) |-> IF i < p THEN bits[i] ELSE IF i = p THEN 1 ELSE 0]

\* round-to-nearest, ties to even, of a value whose first bit is 1
RoundToFloat(x) ==
    LET L == Len(x.bits)
        keep == SubSeq(x.bits, 1, FloatBits)
        rest == SubSeq(x.bits, FloatBits + 1, L)
        up == /\ rest[1] = 1
              /\ AnySet(Tail(rest)) \/ keep[FloatBits] = 1
        kept == IF up THEN Increment(keep) ELSE keep
    IN IF L <= FloatBits THEN x
       ELSE IF Len(kept) > FloatBits
       THEN [bits |-> Front(kept), exp |-> x.exp + (L - FloatBits) + 1]
       ELSE [bits |-> kept, exp |-> x.exp + (L - FloatBits)]

\* 2^e modulo b
RECURSIVE PowerMod(_, _)
PowerMod(e, b) ==
    IF e = 0 THEN 1 % b
    ELSE LET h == PowerMod(e \div 2, b)
         IN (h * h * (IF e % 2 = 1 THEN 2 ELSE 1)) % b

\* the remainder of a * 2^e divided by b
Remainder(a, e, b) == (a * PowerMod(e, b)) % b

\* the bit of weight 2^(-i) of a / b, 0 < a < b
QuotientBit(a, b, i) == IF 2 * Remainder(a, i - 1, b) >= b THEN 1 ELSE 0

\* a / b of two ints, 0 < a < b: the float nearest to the quotient, from
\* its first FloatBits + 1 significant bits and one bit that is set when
\* the rest of the quotient is not zero
truediv(a, b) ==
    LET first == CHOOSE i \in 1..b : /\ QuotientBit(a, b, i) = 1
                                     /\ \A j \in 1..(i - 1) : QuotientBit(a, b, j) = 0
        last == first + FloatBits
    IN RoundToFloat(
          [bits |-> [i \in 1..(FloatBits + 1) |-> QuotientBit(a, b, first + i - 1)]
                       \o <<IF Remainder(a, last, b) # 0 THEN 1 ELSE 0>>,
           exp |-> 0 - last - 1])

RECURSIVE TimesInt(_, _, _)
TimesInt(bits, g, carry) ==
    IF bits = <<>> THEN BitsOf(carry)
    ELSE LET n == IF Len(bits) < LimbBits THEN Len(bits) ELSE LimbBits
             v == IntOf(SubSeq(bits, Len(bits) - n + 1, Len(bits))) * g + carry
         IN TimesInt(SubSeq(bits, 1, Len(bits) - n), g, v \div 2^n) \o LowBits(v, n)

\* g * x of an int g > 0 and a float x
float_mul(g, x) == RoundToFloat([bits |-> TimesInt(x.bits, g, 0), exp |-> x.exp])

\* math.ceil of a float x >= 0 with a negative exponent
ceil(x) ==
    LET L == Len(x.bits)
        k == 0 - x.exp
    IN IF k >= L THEN (IF AnySet(x.bits) THEN 1 ELSE 0)
       ELSE IntOf(SubSeq(x.bits, 1, L - k))
               + (IF AnySet(SubSeq(x.bits, L - k + 1, L)) THEN 1 ELSE 0)

\* ceil(G * (num_impostors / num_players))
ImpPerTeam(games_per_team, config) ==
    ceil(float_mul(games_per_team, truediv(config.num_impostors, config.num_players)))

FallbackBot == "__RuleBasedBot__"

\* teams * k
RECURSIVE Repeat(_, _)
Repeat(teams, k) == IF k <= 0 THEN <<>> ELSE teams \o Repeat(teams, k - 1)

\* the orders of a list that holds cnt[t] copies of t
RECURSIVE Orders(_)
Orders(cnt) ==
    LET left == {t \in DOMAIN cnt : cnt[t] > 0}
    IN IF left = {} THEN {<<>>}
       ELSE UNION {{<<t>> \o rest : rest \in Orders([cnt EXCEPT ![t] = @ - 1])} :
                      t \in left}

\* random.shuffle(queue): every order of the queue can come out
shuffle(queue) ==
    LET members == {queue[i] : i \in 1..Len(queue)}
    IN Orders([t \in members |-> Cardinality({i \in 1..Len(queue) : queue[i] = t})])

\* the team the pop of seat number j (from 0) of a lobby takes from the end of
\* the queue, or the fallback bot once the queue is empty
Popped(queue, j) == IF Len(queue) - j >= 1 THEN queue[Len(queue) - j] ELSE FallbackBot

\* the queue after the n pops tried for a lobby
AfterPops(queue, n) == SubSeq(queue, 1, Max(Len(queue) - n, 0))

\* the while loop: a lobby maps the number j of seat player_j to (team, role)
RECURSIVE DealLobbies(_, _, _)
DealLobbies(impostors, crewmates, config) ==
    IF impostors = <<>> /\ crewmates = <<>> THEN <<>>
    ELSE LET lobby_setup ==
                 [j \in 0..(config.num_players - 1) |->
                     IF j < config.num_impostors
                     THEN [team |-> Popped(impostors, j), role |-> "impostor"]
                     ELSE [team |-> Popped(crewmates, j - config.num_impostors),
                           role |-> "crewmate"]]
         IN <<lobby_setup>> \o
               DealLobbies(AfterPops(impostors, config.num_impostors),
                           AfterPops(crewmates, config.num_players - config.num_impostors),
                           config)

\* TournamentRunner.generate_balanced_matchups
generate_balanced_matchups ==
    /\ op = "init"
    /\ LET teams == state.agent_classes
           imp_per_team == ImpPerTeam(state.games_per_team, state.config)
           crew_per_team == state.games_per_team - imp_per_team
       IN IF teams = <<>>
          THEN state' = [state EXCEPT !.matchups = <<>>]
          ELSE \E impostors \in shuffle(Repeat(teams, imp_per_team)),
                  crewmates \in shuffle(Repeat(teams, crew_per_team)) :
                  state' = [state EXCEPT
                              !.matchups = DealLobbies(impostors, crewmates, state.config)]
    /\ actions' = <<>>
    /\ op' = "generate_balanced_matchups"

(***************************************************************************)
(* SpecSchedule: generate_balanced_matchups for up to three teams, lobbies *)
(* of 4 with 1 impostor, of 7 with 2 and of 25 with 7, and games_per_team  *)
(* up to MaxGames; a tournament of one team may also play as many games as *)
(* a lobby has seats.                                                      *)
(***************************************************************************)
InitialElo == 1200

TeamLists == {<<>>, <<"a">>, <<"a", "b">>, <<"a", "b", "c">>}

LobbyShapes ==
    {[num_players |-> 4, num_impostors |-> 1],
     [num_players |-> 7, num_impostors |-> 2],
     [num_players |-> 25, num_impostors |-> 7]}

\* TournamentRunner.__init__, with the locals of run_tournament and of the
\* last _update_elo: the schedule, the winners of the games played so far,
\* and per seat of the last game the list of opponents and its average as
\* the pair <<sum of ratings, number of ratings>>
TournamentRunner(agent_classes, config, games_per_team) ==
    [agent_classes |-> agent_classes, config |-> config,
     games_per_team |-> games_per_team,
     elo |-> [i \in 1..Len(agent_classes) |-> InitialElo],
     games |-> [i \in 1..Len(agent_classes) |-> 0],
     matchups |-> <<>>,
     game_results |-> <<>>,
     opponents |-> <<>>,
     opp_avg |-> <<>>]

InitSchedule ==
    /\ \E teams \in TeamLists, config \in LobbyShapes :
          \E G \in (1..MaxGames) \cup (IF Len(teams) = 1 THEN {config.num_players} ELSE {}) :
             state = TournamentRunner(teams, config, G)
    /\ actions = <<>>
    /\ op = "init"

NextSchedule == generate_balanced_matchups

SpecSchedule == InitSchedule /\ [][NextSchedule]_vars

\* the seats <<lobby, j>> of the schedule that the team holds in the role
SeatsOf(team, role) ==
    {x \in UNION {{<<g, j>> : j \in DOMAIN state.matchups[g]} :
                     g \in 1..Len(state.matchups)} :
        state.matchups[x[1]][x[2]] = [team |-> team, role |-> role]}

\* C28: in the schedule generate_balanced_matchups returns, whatever the
\* shuffles, each team holds exactly ceil(G * num_impostors / num_players)
\* impostor seats and G less that number of crewmate seats, every lobby has
\* the seats 0 .. num_players - 1, of which exactly the first num_impostors
\* are impostor seats, and every seat holds a team or the fallback bot.
C28_RoleBalancedSchedule ==
    op = "generate_balanced_matchups" =>
       LET G == state.games_per_team
           config == state.config
           teams == {state.agent_classes[i] : i \in 1..Len(state.agent_classes)}
           imp_per_team ==
               (G * config.num_impostors + config.num_players - 1) \div config.num_players
       IN /\ \A team \in teams :
                /\ Cardinality(SeatsOf(team, "impostor")) = imp_per_team
                /\ Cardinality(SeatsOf(team, "crewmate")) = G - imp_per_team
          /\ \A g \in 1..Len(state.matchups) :
                /\ DOMAIN state.matchups[g] = 0..(config.num_players - 1)
                /\ {j \in DOMAIN state.matchups[g] : state.matchups[g][j].role = "impostor"}
                      = 0..(config.num_impostors - 1)
                /\ \A j \in DOMAIN state.matchups[g] :
                      /\ state.matchups[g][j].team \in teams \cup {FallbackBot}
                      /\ state.matchups[g][j].role \in {"impostor", "crewmate"}

\* the numbers of a set in increasing order
RECURSIVE Sorted0(_)
Sorted0(S) ==
    IF S = {} THEN <<>>
    ELSE LET m == CHOOSE x \in S : \A y \in S : x <= y
         IN <<m>> \o Sorted0(S \ {m})

\* the index of the team in agent_classes, which keys elo and stats
TeamIndex(r, team) ==
    CHOOSE i \in 1..Len(r.agent_classes) : r.agent_classes[i] = team

\* compute_elo_delta in whole points.  expected lies strictly between 0 and
\* 1 and is 1/2 exactly when the two ratings are equal, below 1/2 when the
\* opponents' average is the higher and above 1/2 when it is the lower; the
\* delta k * (actual - expected) is k / 2 or -k / 2 in the first case and is
\* otherwise drawn from the two ends of the interval it lies in.
compute_elo_delta(own_rating, opp_avg, won, k) ==
    LET sum == opp_avg[1]
        n == opp_avg[2]
        half == k \div 2
        low == IF won THEN {1, half - 1} ELSE {0 - (k - 1), 0 - (half + 1)}
        high == IF won THEN {half + 1, k - 1} ELSE {0 - (half - 1), 0 - 1}
    IN IF sum = own_rating * n THEN {IF won THEN half ELSE 0 - half}
       ELSE IF sum > own_rating * n THEN high
       ELSE low

\* the other seats of the lobby that hold neither the fallback bot nor the
\* team of seat pid
OpponentSeatsNotOwnTeam(team_mapping, pid) ==
    {oid \in DOMAIN team_mapping :
        /\ oid # pid
        /\ team_mapping[oid] # FallbackBot
        /\ team_mapping[oid] # team_mapping[pid]}

\* the seats oid of [team_mapping[oid] for oid in team_mapping
\*                   if oid != pid and team_mapping[oid] != "__RuleBasedBot__"]
OpponentSeats(team_mapping, pid) ==
    {oid \in DOMAIN team_mapping : oid # pid /\ team_mapping[oid] # FallbackBot}

\* the runners that the loop of _update_elo can leave, from seat pid on
RECURSIVE UpdateEloFrom(_, _, _, _)
UpdateEloFrom(r, lobby, winner, pid) ==
    IF pid \notin DOMAIN lobby THEN {r}
    ELSE IF lobby[pid].team = FallbackBot THEN UpdateEloFrom(r, lobby, winner, pid + 1)
    ELSE LET team_mapping == [j \in DOMAIN lobby |-> lobby[j].team]
             team == TeamIndex(r, lobby[pid].team)
             role == lobby[pid].role
             won == \/ role = "crewmate" /\ winner = "crewmates"
                    \/ role = "impostor" /\ winner = "impostors"
             seats == Sorted0(OpponentSeats(team_mapping, pid))
             opponents == [i \in 1..Len(seats) |-> team_mapping[seats[i]]]
             opp_avg == IF opponents # <<>>
                        THEN <<SumOver(1..Len(opponents),
                                       [i \in 1..Len(opponents) |->
                                           r.elo[TeamIndex(r, opponents[i])]]),
                               Len(opponents)>>
                        ELSE <<InitialElo, 1>>
             k == IF r.games[team] < 10 THEN 32 ELSE 16
         IN UNION {UpdateEloFrom([r EXCEPT !.elo[team] = @ + delta,
                                          !.opponents = @ @@ (pid :> opponents),
                                          !.opp_avg = @ @@ (pid :> opp_avg)],
                                 lobby, winner, pid + 1) :
                      delta \in compute_elo_delta(r.elo[team], opp_avg, won, k)}

\* TournamentRunner._update_elo
update_elo(r, lobby, winner) ==
    UpdateEloFrom([r EXCEPT !.opponents = <<>>, !.opp_avg = <<>>], lobby, winner, 0)

\* TournamentRunner._update_stats: the games counter, once per seat of a team
update_stats(r, lobby) ==
    [r EXCEPT !.games = [i \in DOMAIN r.games |->
        r.games[i] + Cardinality({j \in DOMAIN lobby :
                                     lobby[j].team = r.agent_classes[i]})]]

\* one pass of the loop of run_tournament: the next lobby is played (the
\* engine's result is its winner, the roles are the forced ones), then
\* _update_elo and _update_stats
play_game ==
    /\ op \in {"generate_balanced_matchups", "play_game"}
    /\ Len(state.game_results) < Len(state.matchups)
    /\ LET lobby == state.matchups[Len(state.game_results) + 1]
       IN \E winner \in {"crewmates", "impostors"} :
             \E r \in update_elo(state, lobby, winner) :
                state' = [update_stats(r, lobby) EXCEPT
                            !.game_results = Append(@, winner)]
    /\ actions' = <<>>
    /\ op' = "play_game"

(***************************************************************************)
(* SpecElo: run_tournament for one or two teams in lobbies of 4 with 1     *)
(* impostor or of 5 with 2: the schedule is generated, then its games are  *)
(* played in order.                                                        *)
(***************************************************************************)
EloShapes ==
    {[num_players |-> 4, num_impostors |-> 1],
     [num_players |-> 5, num_impostors |-> 2]}

InitElo ==
    /\ \E teams \in {t \in TeamLists : Len(t) \in {1, 2}},
          config \in EloShapes, G \in 1..MaxGames :
          state = TournamentRunner(teams, config, G)
    /\ actions = <<>>
    /\ op = "init"

NextElo == generate_balanced_matchups \/ play_game

SpecElo == InitElo /\ [][NextElo]_vars

\* C29: after the Elo update of a game, the opponents averaged for a seat
\* held by a team are the teams of the other seats of the lobby that hold
\* neither a fallback bot nor the team itself.
C29_OpponentsExcludeOwnTeam ==
    op = "play_game" =>
       LET lobby == state.matchups[Len(state.game_results)]
           team_mapping == [j \in DOMAIN lobby |-> lobby[j].team]
       IN \A pid \in DOMAIN lobby :
             team_mapping[pid] # FallbackBot =>
                LET seats == Sorted0(OpponentSeatsNotOwnTeam(team_mapping, pid))
                IN state.opponents[pid] = [i \in 1..Len(seats) |-> team_mapping[seats[i]]]

(***************************************************************************)
(* SpecConfig: GameConfig.validate on configurations drawn around its      *)
(* thresholds, the default configuration among them.  state holds the      *)
(* configuration and what validate did with it: None before the call, "ok" *)
(* when it returned, the message of the assertion that failed otherwise.   *)
(***************************************************************************)
\* validate that halves num_players with integer division
validate_floor_half(config) ==
    IF ~(config.num_players >= 4) THEN "Need at least 4 players"
    ELSE IF ~(config.num_impostors >= 1) THEN "Need at least 1 impostor"
    ELSE IF ~(config.num_impostors < config.num_players \div 2)
    THEN "Impostors must be less than half"
    ELSE IF ~(config.tasks_per_crewmate >= config.visual_tasks_per_crewmate)
    THEN "Visual tasks can't exceed total tasks"
    ELSE IF ~(config.max_total_rounds >= 10) THEN "Game must have at least 10 rounds"
    ELSE "ok"

\* GameConfig.validate; num_impostors < num_players / 2 compares with the
\* exact half, so it is 2 * num_impostors < num_players
validate(config) ==
    IF ~(config.num_players >= 4) THEN "Need at least 4 players"
    ELSE IF ~(config.num_impostors >= 1) THEN "Need at least 1 impostor"
    ELSE IF ~(2 * config.num_impostors < config.num_players)
    THEN "Impostors must be less than half"
    ELSE IF ~(config.tasks_per_crewmate >= config.visual_tasks_per_crewmate)
    THEN "Visual tasks can't exceed total tasks"
    ELSE IF ~(config.max_total_rounds >= 10) THEN "Game must have at least 10 rounds"
    ELSE "ok"

\* GameConfig(): the fields validate reads, at their defaults
DefaultConfig ==
    [num_players |-> 7, num_impostors |-> 2, max_total_rounds |-> MaxTotalRounds,
     tasks_per_crewmate |-> 8, visual_tasks_per_crewmate |-> 1]

ConfigDraws ==
    [num_players : 0..MaxPlayers,
     num_impostors : (0 - 1)..MaxPlayers,
     max_total_rounds : {9, 10, MaxTotalRounds},
     tasks_per_crewmate : {0, 1, 8},
     visual_tasks_per_crewmate : {0, 1, 2, 9}]

InitConfig ==
    /\ \E config \in ConfigDraws : state = [config |-> config, result |-> None]
    /\ actions = <<>>
    /\ op = "init"

call_validate ==
    /\ op = "init"
    /\ state' = [state EXCEPT !.result = validate(state.config)]
    /\ actions' = <<>>
    /\ op' = "validate"

NextConfig == call_validate

SpecConfig == InitConfig /\ [][NextConfig]_vars

\* C30: validate fails exactly when num_players < 4, num_impostors < 1,
\* num_impostors is at least half of num_players, visual_tasks_per_crewmate
\* exceeds tasks_per_crewmate or max_total_rounds < 10; it passes the default
\* configuration and fails 4 players with 2 impostors.
C30_ValidateFailsExactly ==
    op = "validate" =>
       LET c == state.config
       IN /\ (state.result # "ok") <=>
                \/ c.num_players < 4
                \/ c.num_impostors < 1
                \/ 2 * c.num_impostors >= c.num_players
                \/ c.visual_tasks_per_crewmate > c.tasks_per_crewmate
                \/ c.max_total_rounds < 10
          /\ c = DefaultConfig => state.result = "ok"
          /\ (c.num_players = 4 /\ c.num_impostors = 2) => state.result # "ok"

\* validate has refused the default configuration changed to 4 players with
\* 2 impostors
C30_Witness ==
    /\ op = "validate"
    /\ state.config = [DefaultConfig EXCEPT !.num_players = 4, !.num_impostors = 2]
    /\ state.result = "Impostors must be less than half"

\* ---------------------------------------------------------------------------
\* Two impostors in one lobby: same-round kill conflicts (engine.py 437-454)
\* ---------------------------------------------------------------------------
KillMenu ==
    [p1 |-> {Act("move", "Admin")},
     p2 |-> {Act("kill", "p1"), Act("kill", "p3"), Act("move", "Admin")},
     p5 |-> {Act("kill", "p1"), Act("kill", "p3"), Act("move", "Admin")}]

\* every subset of the menu's players, inserted in ascending and in descending
\* order of their ids
KillMaps ==
    LET ascending == UNION {MapsOver(Sorted(S), KillMenu) : S \in SUBSET DOMAIN KillMenu}
    IN ascending \cup {[i \in 1..Len(m) |-> m[Len(m) + 1 - i]] : m \in ascending}

InitKills ==
    /\ state = LobbyState(GameConfig(LongCountdown))
    /\ actions = <<>>
    /\ op = "init"

KillRound ==
    /\ state.phase = "task"
    /\ state.round_number < ShortGameRounds
    /\ \E acts \in KillMaps : resolve_round(acts)

NextKills == KillRound

SpecKills == InitKills /\ [][NextKills]_vars

BodiesIn(s, pid) == {i \in 1..Len(s.bodies) : s.bodies[i].player_id = pid}

\* C31: when two impostors' kills both pass validation and name the same
\* crewmate, who stands in the room of both after movement, only the killer
\* with the smaller id succeeds: one body of the target is created, that
\* killer's cooldown is set to config.kill_cooldown, and the other killer gets
\* a failed result with a reason and keeps the cooldown it had at validation.
C31_KillConflict ==
    [][op' = "resolve_round" =>
        LET s2 == AtValidation(state)
            ord == ValidatedOrder(s2, actions')
            va == ValidatedActions(s2, actions')
            moved == ResolveMovement(s2, ord, va)
        IN ~CountdownExpired(s2) =>
           \A k1, k2 \in Ids(state) :
              (/\ Rank(k1) < Rank(k2)
               /\ va[k1].action = "kill"
               /\ va[k2].action = "kill"
               /\ va[k1].target = va[k2].target
               /\ KillHits(moved, k1, va[k1].target)
               /\ KillHits(moved, k2, va[k2].target))
              => /\ state'.action_results[k1].success
                 /\ ~state'.action_results[k2].success
                 /\ state'.action_results[k2].reason # None
                 /\ ~state'.players[va[k1].target].alive
                 /\ Cardinality(BodiesIn(state', va[k1].target))
                       = Cardinality(BodiesIn(state, va[k1].target)) + 1
                 /\ Len(state'.bodies) = Len(state.bodies) + 1
                 /\ state'.players[k1].kill_cooldown = state.config.kill_cooldown
                 /\ state'.players[k2].kill_cooldown = s2.players[k2].kill_cooldown]_vars

C31_Witness ==
    /\ op = "resolve_round"
    /\ Len(actions) = 2
    /\ actions[1] = Entry("p5", Act("kill", "p1"))
    /\ actions[2] = Entry("p2", Act("kill", "p1"))
    /\ state.action_results["p2"].success
    /\ ~state.action_results["p5"].success
    /\ state.players["p2"].kill_cooldown = state.config.kill_cooldown
    /\ state.players["p5"].kill_cooldown = 0
    /\ ~state.players["p1"].alive
    /\ Cardinality(BodiesIn(state, "p1")) = 1

\* ---------------------------------------------------------------------------
\* Two saboteurs in one lobby: which sabotage is installed (engine.py 513-529)
\* ---------------------------------------------------------------------------
SaboteurMenu ==
    [p2 |-> {Act("sabotage", "reactor"), Act("sabotage", "lights"),
             Act("sabotage", "doors"), Act("kill", "p1")},
     p3 |-> {Act("call_emergency", None)},
     p5 |-> {Act("sabotage", "o2"), Act("sabotage", "comms")}]

SaboteurMaps ==
    LET ascending == UNION {MapsOver(Sorted(S), SaboteurMenu) :
                               S \in SUBSET DOMAIN SaboteurMenu}
    IN ascending \cup {[i \in 1..Len(m) |-> m[Len(m) + 1 - i]] : m \in ascending}

InitSaboteurs ==
    /\ state = LobbyState(GameConfig(LongCountdown))
    /\ actions = <<>>
    /\ op = "init"

SaboteurRound ==
    /\ state.phase = "task"
    /\ state.round_number < ShortGameRounds
    /\ \E acts \in SaboteurMaps : resolve_round(acts)

NextSaboteurs == SaboteurRound

SpecSaboteurs == InitSaboteurs /\ [][NextSaboteurs]_vars

\* the players whose sabotage passes validation in the round that starts in s
ValidSaboteurs(s, acts) ==
    {p \in Ids(s) : ValidatedActions(AtValidation(s), acts)[p].action = "sabotage"}

\* C32: in a round that installs no meeting and ends with no winner, if some
\* sabotage passed validation (so none was active), the sabotage named by the
\* smallest saboteur id is active afterwards, with progress 0 in each of its
\* catalog fix rooms, the catalog's requirements, and a countdown of
\* config.sabotage_countdown exactly when it is critical; a sabotage that is
\* active at the start of a round is never replaced by another one.
C32_SabotageInstall ==
    [][op' = "resolve_round" =>
        LET saboteurs == ValidSaboteurs(state, actions')
            first == LowestOf(saboteurs)
            name == EntryOf(actions', first).target
            def == SABOTAGE_DEFINITIONS[name]
        IN /\ (saboteurs # {} /\ state'.phase = "task" /\ state'.winner = None)
              => /\ state.sabotage.type = None
                 /\ state'.sabotage.type = name
                 /\ state'.sabotage.critical = def.critical
                 /\ DOMAIN state'.sabotage.fix_progress = DOMAIN def.fix_locations
                 /\ \A r \in DOMAIN def.fix_locations :
                       state'.sabotage.fix_progress[r] = 0
                 /\ state'.sabotage.fix_required = def.fix_locations
                 /\ state'.sabotage.countdown =
                       IF def.critical THEN <<state.config.sabotage_countdown>> ELSE <<>>
           /\ state.sabotage.type # None
              => state'.sabotage.type \in {None, state.sabotage.type}]_vars

C32_Witness ==
    /\ op = "resolve_round"
    /\ Len(actions) = 2
    /\ actions[1] = Entry("p5", Act("sabotage", "o2"))
    /\ actions[2] = Entry("p2", Act("sabotage", "lights"))
    /\ state.action_results["p2"].success
    /\ state.action_results["p5"].success
    /\ state.sabotage.type = "lights"
    /\ state.sabotage.countdown = <<>>
    /\ state.sabotage.fix_progress = ("Electrical" :> 0)
    /\ state.phase = "task"
    /\ state.winner = None

\* ---------------------------------------------------------------------------
\* Three fixers and a saboteur: clearing a sabotage and the cooldown that
\* follows (engine.py 531-547, 377-381)
\* ---------------------------------------------------------------------------
FixPrelude ==
    << <<Entry("p1", Act("move", "Admin")), Entry("p3", Act("move", "Admin")),
         Entry("p6", Act("move", "Admin"))>>,
       <<Entry("p2", Act("sabotage", "o2")), Entry("p3", Act("move", "O2"))>> >>

FixMenu ==
    [p1 |-> {Act("fix_sabotage", None)},
     p2 |-> {Act("sabotage", "o2"), Act("sabotage", "lights")},
     p3 |-> {Act("fix_sabotage", None)},
     p5 |-> {Act("call_emergency", None)},
     p6 |-> {Act("fix_sabotage", None)}]

FixMaps == UNION {MapsOver(Sorted(S), FixMenu) : S \in SUBSET DOMAIN FixMenu}

InitFix ==
    /\ state = LobbyState(GameConfig(LongCountdown))
    /\ actions = <<>>
    /\ op = "init"

FixPreludeRound ==
    /\ state.phase = "task"
    /\ state.round_number < Len(FixPrelude)
    /\ resolve_round(FixPrelude[state.round_number + 1])

FixRound ==
    /\ state.phase = "task"
    /\ state.round_number >= Len(FixPrelude)
    /\ state.round_number < Len(FixPrelude) + SabotageCooldown + FixRounds + 1
    /\ \E acts \in FixMaps : resolve_round(acts)

NextFix == FixPreludeRound \/ FixRound

SpecFix == InitFix /\ [][NextFix]_vars

\* fix_progress of room r after the fix step of the round that starts in s:
\* one more for every player in r whose fix_sabotage passed validation
ProgressAfterFixes(s, acts, r) ==
    s.sabotage.fix_progress[r]
      + Cardinality({p \in Ids(s) :
                        /\ ValidatedActions(AtValidation(s), acts)[p].action = "fix_sabotage"
                        /\ s.players[p].location = r})

AllRoomsFixed(s, acts) ==
    \A r \in DOMAIN s.sabotage.fix_required :
        ProgressAfterFixes(s, acts, r) >= s.sabotage.fix_required[r]

\* C33: a sabotage that is active when a round starts is cleared by that round
\* exactly when the round runs to its fix step and every fix room then has
\* fix_progress >= fix_required, and the clearing round leaves sabotage_cooldown
\* at config.sabotage_cooldown; otherwise the same sabotage stays active. A
\* round that starts with sabotage_cooldown of 2 or more installs no sabotage
\* and lowers the cooldown by one, so the first round that can install one is
\* the sabotage_cooldown-th round after the clearing round.
C33_SabotageFix ==
    [][op' = "resolve_round" =>
        /\ state.sabotage.type # None =>
              /\ (state'.phase = "task" /\ state'.winner = None)
                    => (state'.sabotage.type = None <=> AllRoomsFixed(state, actions'))
              /\ state'.sabotage.type = None
                    => /\ AllRoomsFixed(state, actions')
                       /\ state'.sabotage_cooldown = state.config.sabotage_cooldown
              /\ state'.sabotage.type # None
                    => /\ state'.sabotage.type = state.sabotage.type
                       /\ state'.sabotage.fix_required = state.sabotage.fix_required
        /\ state.sabotage_cooldown >= 2 =>
              /\ state'.sabotage.type = None
              /\ state'.sabotage_cooldown = state.sabotage_cooldown - 1]_vars

\* the o2 sabotage of round 2 needs two rounds of fixes in O2, so round 4 is
\* the first that can clear it, and lights go out in round 4 + sabotage_cooldown
C33_Witness ==
    /\ op = "resolve_round"
    /\ state.round_number = Len(FixPrelude) + 2 + state.config.sabotage_cooldown
    /\ state.sabotage.type = "lights"
    /\ state.sabotage_cooldown = 0
    /\ Submitted("p2", "sabotage", "lights")
    /\ state.action_results["p2"].success

\* ---------------------------------------------------------------------------
\* A long kill cooldown: the rounds between two kills of one impostor
\* (engine.py 377-381, 442-446, 639-646)
\* ---------------------------------------------------------------------------
SpacingMenu ==
    [p1 |-> {Act("move", "Admin")},
     p2 |-> {Act("kill", "p1"), Act("kill", "p3"), Act("move", "Admin")},
     p5 |-> {Act("kill", "p4")}]

SpacingMaps == UNION {MapsOver(Sorted(S), SpacingMenu) : S \in SUBSET DOMAIN SpacingMenu}

InitSpacing ==
    /\ state = LobbyState([GameConfig(LongCountdown) EXCEPT
                              !.kill_cooldown = LongKillCooldown])
    /\ actions = <<>>
    /\ op = "init"

SpacingRound ==
    /\ state.phase = "task"
    /\ state.round_number <= LongKillCooldown
    /\ \E acts \in SpacingMaps : resolve_round(acts)

NextSpacing == SpacingRound

SpecSpacing == InitSpacing /\ [][NextSpacing]_vars

\* p's kill succeeded in the round that led to state s
KilledIn(s, p) ==
    /\ p \in DOMAIN s.action_results
    /\ s.action_results[p].action = "kill"
    /\ s.action_results[p].success

\* C34: every round leaves each impostor's kill_cooldown between 0 and
\* config.kill_cooldown; a successful kill leaves it at config.kill_cooldown,
\* a round without one lowers it by one (not below 0), and an impostor who
\* starts a round with a cooldown of 2 or more kills nobody in it. A kill in
\* round r is therefore followed by no kill of the same impostor in rounds
\* r+1 .. r+kill_cooldown-1.
C34_KillCooldownSpacing ==
    [][op' = "resolve_round" =>
        \A p \in Ids(state) :
           state.players[p].role = "impostor" =>
              /\ state'.players[p].kill_cooldown \in 0..state.config.kill_cooldown
              /\ KilledIn(state', p)
                    => /\ state.players[p].kill_cooldown <= 1
                       /\ state'.players[p].kill_cooldown = state.config.kill_cooldown
              /\ ~KilledIn(state', p)
                    => state'.players[p].kill_cooldown
                          = Max(0, state.players[p].kill_cooldown - 1)
              /\ state.players[p].kill_cooldown >= 2
                    => /\ ~KilledIn(state', p)
                       /\ Len(state'.bodies) - Len(state.bodies)
                             = Cardinality({q \in Ids(state) \ {p} : KilledIn(state', q)})]_vars

\* p2 kills p1 in round 1, is refused in between, and kills p3 in round
\* 1 + kill_cooldown
C34_Witness ==
    /\ op = "resolve_round"
    /\ state.round_number = 1 + state.config.kill_cooldown
    /\ state.config.kill_cooldown >= 2
    /\ Submitted("p2", "kill", "p3")
    /\ KilledIn(state, "p2")
    /\ state.players["p2"].kill_cooldown = state.config.kill_cooldown
    /\ ~state.players["p1"].alive
    /\ state.players["p4"].alive
    /\ state.players["p1"].location = "Cafeteria"

\* C35 as stated: when a round has installed a meeting, the player recorded
\* as called_by is alive, also when that player was the target of a kill of
\* the same round.
C35_CallerAlive ==
    (op = "resolve_round" /\ state.phase = "discussion")
        => state.players[state.meeting_context.called_by].alive

\* C36 as stated: no living player's events of a round hold a "left",
\* "arrived" or "passed" event whose mover was dead when the round began.
C36_GhostMovesUnseen ==
    [][op' = "resolve_round" =>
        \A w \in Ids(state) :
           state'.players[w].alive =>
              \A i \in 1..Len(state'.events[w]) :
                 state'.events[w][i][1] \in {"left", "arrived", "passed"}
                    => state.players[state'.events[w][i][2]].alive]_vars

\* C37 as stated: a round that starts with the lights sabotaged adds no event
\* naming another player (left, arrived, passed, killed, visual task) to the
\* events of a living crewmate.
C37_BlindnessCoversEvents ==
    [][(op' = "resolve_round" /\ LightsOn(state)) =>
        \A w \in Ids(state) :
           (state'.players[w].alive /\ state.players[w].role = "crewmate") =>
              \A i \in 1..Len(state'.events[w]) :
                 state'.events[w][i][1]
                    \notin {"left", "arrived", "passed", "killed", "visual"}]_vars

\* ---------------------------------------------------------------------------
\* Conflicting actions in every insertion order (engine.py 393-407, 437,
\* 479-480, 514-516)
\* ---------------------------------------------------------------------------
OrderMenu ==
    [p1 |-> {Act("call_emergency", None), Act("move", "Admin")},
     p2 |-> {Act("kill", "p1"), Act("sabotage", "lights"), Act("report", None)},
     p3 |-> {Act("call_emergency", None), Act("report", None), Act("move", "Admin")},
     p5 |-> {Act("kill", "p1"), Act("sabotage", "o2")}]

OrderMaps == UNION {MapsOver(Sorted(S), OrderMenu) : S \in SUBSET DOMAIN OrderMenu}

\* states to start the compared round from: the fresh lobby, the lobby after
\* p2 has killed p4 (a body to report), and after p5 has sabotaged o2
OrderInputs ==
    LET lobby == LobbyState(GameConfig(LongCountdown))
    IN {lobby,
        ResolveRound(lobby, <<Entry("p2", Act("kill", "p4"))>>),
        ResolveRound(lobby, <<Entry("p5", Act("sabotage", "o2"))>>)}

InitOrder ==
    /\ state \in OrderInputs
    /\ actions = <<>>
    /\ op = "init"

\* one round, its map walked in any insertion order; actions keeps the
\* ascending one
OrderRound ==
    /\ op = "init"
    /\ state.phase = "task"
    /\ \E acts \in OrderMaps : resolve_round_unordered(acts)

NextOrder == OrderRound

SpecOrder == InitOrder /\ [][NextOrder]_vars

\* the part of a state that the order of the action map must not change
OrderFree(s) ==
    [players |-> [p \in Ids(s) |->
                    [location |-> s.players[p].location,
                     alive |-> s.players[p].alive,
                     kill_cooldown |-> s.players[p].kill_cooldown,
                     emergency_meetings_remaining |->
                         s.players[p].emergency_meetings_remaining]],
     tasks |-> [p \in DOMAIN s.tasks |->
                  [i \in 1..Len(s.tasks[p]) |-> s.tasks[p][i].progress]],
     bodies |-> s.bodies,
     sabotage |-> s.sabotage,
     sabotage_cooldown |-> s.sabotage_cooldown,
     phase |-> s.phase,
     meeting_context |-> s.meeting_context,
     winner |-> s.winner,
     success |-> [p \in DOMAIN s.action_results |-> s.action_results[p].success]]

\* C38: whatever the order in which the entries of the action map are
\* inserted, the round leaves the same players (location, alive, cooldown,
\* meetings remaining), task progress, bodies, sabotage, sabotage_cooldown,
\* phase, meeting_context, winner and success flags.
C38_OrderIndependence ==
    [][op' = "resolve_round" =>
        \A walked \in Reordered(actions') :
           OrderFree(ResolveRound(state, walked)) = OrderFree(state')]_vars

\* all four submit in the fresh lobby: both impostors sabotage and the
\* smaller id's lights go out, while p1 and p3 leave the room in a walk of the
\* map that leaves another full state (the order of the events) than the
\* ascending walk
C38_Witness ==
    /\ op = "resolve_round"
    /\ Len(actions) = 4
    /\ Submitted("p1", "move", "Admin")
    /\ Submitted("p2", "sabotage", "lights")
    /\ Submitted("p3", "move", "Admin")
    /\ Submitted("p5", "sabotage", "o2")
    /\ state.action_results["p2"].success
    /\ state.action_results["p5"].success
    /\ state.sabotage.type = "lights"
    /\ state.round_number = 1
    /\ state # ResolveRound(LobbyState(GameConfig(LongCountdown)), actions)

\* C39 as stated: for a living player whose task observation before a round
\* has can_kill false, a kill submitted in that round fails validation;
\* likewise a sabotage when can_sabotage is false and a report when
\* can_report is false.
C39_ObservationAgrees ==
    [][(op' = "resolve_round" /\ ~CountdownExpired(AtValidation(state))) =>
        \A i \in 1..Len(actions') :
           LET p == actions'[i].pid
               may == AvailableActions(state, p)
               passes == Validate(AtValidation(state), p, actions'[i]).success
           IN state.players[p].alive =>
                 /\ (actions'[i].action = "kill" /\ state.players[p].role = "impostor"
                       /\ ~may.can_kill) => ~passes
                 /\ (actions'[i].action = "sabotage" /\ ~may.can_sabotage) => ~passes
                 /\ (actions'[i].action = "report" /\ ~may.can_report) => ~passes]_vars

\* ---------------------------------------------------------------------------
\* A critical sabotage installed in a known round: its deadline
\* (engine.py 383-391, 513-547)
\* ---------------------------------------------------------------------------
\* round 1 leaves a body in the Cafeteria and walks the fixers out; round 2
\* installs o2 while p1 already tries to fix it
DeadlinePrelude ==
    << <<Entry("p1", Act("move", "Admin")), Entry("p2", Act("kill", "p4")),
         Entry("p3", Act("move", "Admin"))>>,
       <<Entry("p1", Act("fix_sabotage", None)), Entry("p2", Act("sabotage", "o2")),
         Entry("p3", Act("move", "O2"))>> >>

DeadlineMenu ==
    [p1 |-> {Act("fix_sabotage", None)},
     p3 |-> {Act("fix_sabotage", None)},
     p5 |-> {Act("kill", "p6")},
     p6 |-> {Act("report", None)}]

DeadlineMaps == UNION {MapsOver(Sorted(S), DeadlineMenu) : S \in SUBSET DOMAIN DeadlineMenu}

\* the round in which the prelude installs the sabotage
InstallRound == Len(DeadlinePrelude)

InitDeadline ==
    /\ state = LobbyState(GameConfig(LongCountdown))
    /\ actions = <<>>
    /\ op = "init"

DeadlinePreludeRound ==
    /\ state.phase = "task"
    /\ state.round_number < Len(DeadlinePrelude)
    /\ resolve_round(DeadlinePrelude[state.round_number + 1])

DeadlineRound ==
    /\ state.phase = "task"
    /\ state.round_number >= Len(DeadlinePrelude)
    /\ state.round_number <= InstallRound + LongCountdown
    /\ \E acts \in DeadlineMaps : resolve_round(acts)

NextDeadline == DeadlinePreludeRound \/ DeadlineRound

SpecDeadline == InitDeadline /\ [][NextDeadline]_vars

CriticalActive(s) ==
    s.sabotage.type # None /\ s.sabotage.critical /\ s.sabotage.countdown # <<>>

SabotageWin(s) ==
    /\ s.phase = "game_over"
    /\ s.winner = "impostors"
    /\ s.win_cause \in {"sabotage_reactor", "sabotage_o2"}

\* in every state: the countdown of the sabotage installed in InstallRound is
\* sabotage_countdown less the rounds played since, it is positive unless the
\* game is over, and a sabotage win is dated InstallRound + sabotage_countdown
DeadlineDated ==
    /\ CriticalActive(state) =>
          /\ state.sabotage.countdown
                = <<state.config.sabotage_countdown - (state.round_number - InstallRound)>>
          /\ state.phase # "game_over" => state.sabotage.countdown[1] >= 1
          /\ state.round_number >= InstallRound + state.config.sabotage_countdown
                => SabotageWin(state)
    /\ state.win_cause \in {"sabotage_reactor", "sabotage_o2"} =>
          /\ SabotageWin(state)
          /\ state.round_number = InstallRound + state.config.sabotage_countdown

\* in every round: the installing round and the round of the deadline leave
\* fix_progress as it was (all 0 at installation); a round that starts with a
\* countdown of 1 ends in the sabotage win; any other round with the sabotage
\* active either clears it or takes one from the countdown, a round that
\* installs a meeting included
DeadlineStep ==
    op' = "resolve_round" =>
       /\ (~CriticalActive(state) /\ CriticalActive(state')) =>
             /\ state'.sabotage.countdown = <<state.config.sabotage_countdown>>
             /\ \A r \in DOMAIN state'.sabotage.fix_progress :
                   state'.sabotage.fix_progress[r] = 0
       /\ (CriticalActive(state) /\ state.sabotage.countdown[1] = 1) =>
             /\ SabotageWin(state')
             /\ state'.sabotage.fix_progress = state.sabotage.fix_progress
       /\ (CriticalActive(state) /\ state.sabotage.countdown[1] >= 2) =>
             /\ ~SabotageWin(state')
             /\ \/ state'.sabotage.type = None
                \/ /\ state'.sabotage.type = state.sabotage.type
                   /\ state'.sabotage.countdown = <<state.sabotage.countdown[1] - 1>>
             /\ state'.phase = "discussion" =>
                   /\ state'.sabotage.countdown = <<state.sabotage.countdown[1] - 1>>
                   /\ state'.sabotage.fix_progress = state.sabotage.fix_progress

\* C40: a critical sabotage installed in round r with countdown
\* config.sabotage_countdown loses one per round, meeting rounds included, is
\* never at 0 or below outside GAME_OVER, and unless it is fixed or another
\* win comes first the impostors win by sabotage exactly in round
\* r + sabotage_countdown; fixes change fix_progress neither in round r nor
\* in round r + sabotage_countdown.
C40_CriticalDeadline == []DeadlineDated /\ [][DeadlineStep]_vars

\* the sabotage of round 2 runs out in round 2 + sabotage_countdown, after p1
\* fixed in Admin in between and tried again in the last round
C40_Witness ==
    /\ op = "resolve_round"
    /\ SabotageWin(state)
    /\ state.round_number = InstallRound + state.config.sabotage_countdown
    /\ state.sabotage.countdown = <<0>>
    /\ state.sabotage.fix_progress["Admin"] >= 1
    /\ Submitted("p1", "fix_sabotage", None)
    /\ state.players["p6"].alive

====
